---- MODULE Spec2Model ----
(***************************************************************************)
(* A model of the OSINT probing tool (XeinTDM/OSINT).                      *)
(*                                                                         *)
(* The parts of the program are modelled, each with its own               *)
(* specification over the same variables:                                  *)
(*   SpecCatalog  SitesManager: the two in-memory catalogs, the two local  *)
(*                documents and the remote refresh operations              *)
(*   SpecDecide   the full-name found / not-found decision                 *)
(*   SpecUsernameDecide  the username found / not-found decision           *)
(*   SpecRun      run_scans / run_full_name_scan and ScanManager           *)
(*   SpecScan     one category scan (username or full name): dispatch,     *)
(*                the probe tasks, the two semaphores, the browser context *)
(*   SpecScanFair the same scan under fair scheduling, for termination     *)
(*   SpecLoad     SitesManager._load_sites_data, record by record          *)
(*   SpecEmail    the email scan against the breach API                    *)
(*   SpecDomain   the domain / IP analysis                                 *)
(***************************************************************************)
EXTENDS Integers, Sequences, FiniteSets, TLC

VARIABLES
    \* ---- SitesManager (modules/sites_manager.py) ----
    username_sites_data,     \* SitesManager._username_sites_data
    full_name_sites_data,    \* SitesManager._full_name_sites_data
    sites_json,              \* the document at paths.SITES_JSON_PATH
    full_name_sites_json,    \* the document at paths.FULL_NAME_SITES_JSON_PATH
    catLast,                 \* the last refresh call: its inputs and its return value
    lookup,                  \* the last get_full_name_sites_by_country call: [country, result]
    ensured,                 \* the last ensure_sites_json_exists call: what it found, its refreshes
    \* ---- SitesManager._load_sites_data, record by record ----
    username_document,       \* the "username_sites" records of sites.json
    full_name_document,      \* the countries of full_name_sites.json, each its site records
    loaded_username,         \* _username_sites_data after the load
    loaded_full_name,        \* _full_name_sites_data after the load
    loadPc,                  \* "constructing", "loaded", "queried"
    got_username_sites,      \* what get_username_sites() returned
    existed,                 \* which of the two documents existed when the manager was built
    file_ops,                \* the writes and reads of the two paths made by the load, in order
    \* ---- the full-name decision (modules/full_name_scanner.py) ----
    noResult,                \* site.noResult of the probed site: [type, value]
    response,                \* what the request / navigation gave: [none, status, content]
    decision,                \* the outcome of the last decision: [strategy, raised, found]
    \* ---- the username decision (username_scanner.py) ----
    u_site,                  \* the Site: errorType, checkType, errorString, successString
    u_status,                \* the status of the response (0: the navigation gave none)
    u_content,               \* the body of the response / the content of the page
    u_decision,              \* the found value a strategy computed: [strategy, found]
    \* ---- run_scans / run_full_name_scan / ScanManager ----
    entry,                   \* which top-level function was called
    selected_scans,          \* args["selected_scans"]; via the menu, the scans the user chose
    targets,                 \* the scans whose target argument is set (args.get(...) is truthy)
    runPc,                   \* where the top-level function is
    runIdx,                  \* which of its run_scanner calls comes next
    browser,                 \* the local variable browser: "none", "launched", "closed"
    closeCalls,              \* how often browser.close() was invoked
    scan_context,            \* the AggregateContext: scanner class -> its entry
    invoked,                 \* the scanner classes run_scanner was called for
    propagated,              \* the scanner classes whose run_scanner call raised
    caught,                  \* what the function's "except Exception" caught
    reported,                \* generate_cli_report returned
    calls,                   \* the run_scanner calls in time: when each began and ended
    via_tui,                 \* args was built by gather_scan_arguments (the "Start a new scan" menu)
    \* ---- one category scan (username_scanner.py, full_name_scanner.py) ----
    scanner,                 \* "username" or "full_name"
    sites,                   \* the catalog entries the scan gets from the sites manager
    rawCatalog,              \* the entries are raw JSON values, not Site objects
    hasBrowser,              \* self.browser is set
    middle_name,             \* kwargs carries a middle name
    aliases,                 \* how many aliases kwargs carries
    scanPc,                  \* "init", "gathering", "returned", "raised"
    scanExc,                 \* what scan() raised: "none", "AttributeError", "probe", "collect"
    context,                 \* the browser context: "none", "open", "closed"
    contextCloses,           \* how often context.close() was invoked
    tasks,                   \* the probe tasks handed to asyncio.gather, in dispatch order
    basic_semaphore,         \* free slots of basic_semaphore
    dynamic_semaphore,       \* free slots of dynamic_semaphore
    found_on,                \* results["found_on"]: the tasks (by index) listed as found
    errors,                  \* results["errors"]: the tasks (by index) that gave an error string
    overtaken,               \* a found probe completed after a found probe dispatched later
    \* ---- the email scan (modules/email_scanner.py) ----
    email_kwargs,            \* the names of the keyword arguments scan() is called with
    api_key,                 \* the value of the API key: "None", "empty", "key"
    via_manager,             \* the scan is run through ScanManager.run_scanner
    emailPc,                 \* "start", "called", "requesting", "sleeping", "returned", "raised", "propagated"
    email_requests,          \* how many requests were issued (session.get calls)
    email_sleeps,            \* the asyncio.sleep calls: their seconds
    email_answers,           \* the answers the requests got
    email_result,            \* how scan() ended: [out, breached, breaches]
    email_entry,             \* what run_scanner stored for the email scan
    \* ---- the domain / IP analysis (modules/domain_ip_scanner.py) ----
    dom_target,              \* what the target is: "ipv4", "ipv6", "domain"
    domPc,                   \* "start", "whois", "dns", "ports", "returned", "raised"
    lookups,                 \* the WHOIS and DNS lookups made, in order
    dns_log,                 \* the DNS queries and how each ended
    results,                 \* the keys of the local dict results
    connected,               \* the ports whose connection succeeded
    port_attempts,           \* the ports a connection was attempted to
    dom_error,               \* the exception raised: [class, at]
    dom_return               \* the returned dict: [returned, keys, open_ports]

catVars == <<username_sites_data, full_name_sites_data, sites_json, full_name_sites_json, catLast,
             lookup, ensured>>

loadVars == <<username_document, full_name_document, loaded_username, loaded_full_name, loadPc,
              got_username_sites, existed, file_ops>>

decVars == <<noResult, response, decision, u_site, u_status, u_content, u_decision>>

runVars == <<entry, selected_scans, targets, runPc, runIdx, browser, closeCalls,
             scan_context, invoked, propagated, caught, reported, calls, via_tui>>

scanVars == <<scanner, sites, rawCatalog, hasBrowser, middle_name, aliases, scanPc, scanExc,
              context, contextCloses, tasks, basic_semaphore, dynamic_semaphore, found_on, errors,
              overtaken>>

emailVars == <<email_kwargs, api_key, via_manager, emailPc, email_requests, email_sleeps,
               email_answers, email_result, email_entry>>

domVars == <<dom_target, domPc, lookups, dns_log, results, connected, port_attempts, dom_error,
             dom_return>>

vars == <<catVars, loadVars, decVars, runVars, scanVars, emailVars, domVars>>

-----------------------------------------------------------------------------
(***************************************************************************)
(* Site catalog: modules/sites_manager.py                                   *)
(***************************************************************************)

\* Longest list of records a document of the model carries.
MaxDocLen == 1

\* The raw site records a document can list (their fields are opaque here).
RawRecords == {"r1"}

ItemSeqs == UNION {[1..n -> RawRecords] : n \in 0..MaxDocLen}

\* A document (a file's content or a fetched body) by what json.loads makes of
\* it: text that is no JSON, a JSON object (with or without the key
\* "username_sites"), or a JSON array.
InvalidDoc == [json |-> "invalid", key |-> FALSE, items |-> <<>>]

Docs ==
    {InvalidDoc}
    \cup {[json |-> "object", key |-> FALSE, items |-> <<>>]}
    \cup {[json |-> "object", key |-> TRUE, items |-> s] : s \in ItemSeqs}
    \cup {[json |-> "array", key |-> FALSE, items |-> s] : s \in ItemSeqs}

\* An in-memory catalog: the list it holds, and whether its entries are
\* validated model objects (Site / CountrySites) or the raw JSON values.
Memory(validated, shape, items) ==
    [validated |-> validated, shape |-> shape, items |-> items]

EmptyMemory == Memory(FALSE, "array", <<>>)

\* json.load(f).get("username_sites", []) of _load_sites_data and
\* json.loads(new_sites_content).get("username_sites", []) of
\* update_sites_json_from_url: ok is FALSE when the expression raises
\* (JSONDecodeError on text that is no JSON, AttributeError on a JSON array).
ParseUsernameSites(doc) ==
    IF doc.json = "object"
    THEN [ok |-> TRUE, value |-> Memory(FALSE, "array", IF doc.key THEN doc.items ELSE <<>>)]
    ELSE [ok |-> FALSE, value |-> EmptyMemory]

\* json.loads(new_sites_content) of update_full_name_sites_json_from_url: any
\* JSON value is taken as it is.
ParseFullNameSites(doc) ==
    IF doc.json = "invalid"
    THEN [ok |-> FALSE, value |-> EmptyMemory]
    ELSE [ok |-> TRUE, value |-> Memory(FALSE, doc.json, doc.items)]

\* _load_sites_data, username part: JSONDecodeError gives the empty list.
LoadUsernameSites(doc) ==
    IF doc.json = "invalid" THEN EmptyMemory ELSE ParseUsernameSites(doc).value

\* _load_sites_data, full-name part: a JSON array is turned into CountrySites
\* objects, anything else leaves the empty list.
LoadFullNameSites(doc) ==
    IF doc.json = "array" THEN Memory(TRUE, "array", doc.items) ELSE EmptyMemory

\* How the HTTP fetch of a refresh ends: the body was read, aiohttp.ClientError
\* (connection failure, or raise_for_status on an error status), or another
\* exception (asyncio.TimeoutError of the 10 s timeout).
FetchOutcomes == {"ok", "client_error", "status_error", "timeout"}

NoCall == [op |-> "none", fetch |-> "ok", body |-> InvalidDoc, opened |-> FALSE, ret |-> FALSE]

\* The local document after the "with open(path, 'w')" block of a refresh: the
\* body is written before it is parsed.
WrittenFile(file, fetch, opened, body, parsed) ==
    IF fetch = "ok" /\ opened THEN body ELSE file

\* The in-memory catalog after a refresh: assigned only when the fetch, the
\* write and the parse all went through.
RefreshedMemoryMutant(mem, fetch, opened, parsed) ==
    IF fetch = "ok" /\ opened
    THEN (IF parsed.ok THEN parsed.value ELSE EmptyMemory)
    ELSE mem

RefreshedMemory(mem, fetch, opened, parsed) ==
    IF fetch = "ok" /\ opened /\ parsed.ok THEN parsed.value ELSE mem

RefreshReturn(fetch, opened, parsed) == fetch = "ok" /\ opened /\ parsed.ok

\* The countries of the model.  Every record of a full-name document is the
\* record of the country "US".
Countries == {"US", "SE"}

CountryOf(record) == "US"

NoLookup == [country |-> "none", result |-> "none"]

\* SitesManager.get_full_name_sites_by_country, lines 158-163: the loop reads
\* country_data.country of each entry.  A CountrySites object has the
\* attribute; a raw JSON value (a dict of a JSON array, a key of a JSON object)
\* has not, and the read raises AttributeError at the first entry.  An object
\* without the key "username_sites" stands for {} as well as for an object with
\* other keys, so both outcomes are possible for it.
LookupResults(mem, country) ==
    IF mem.validated
    THEN {IF \E i \in DOMAIN mem.items : CountryOf(mem.items[i]) = country
          THEN "sites" ELSE "empty"}
    ELSE IF mem.shape = "array"
    THEN {IF mem.items = <<>> THEN "empty" ELSE "AttributeError"}
    ELSE IF mem.items = <<>> THEN {"empty", "AttributeError"} ELSE {"AttributeError"}

\* No ensure_sites_json_exists call yet; refreshes lists the refresh
\* operations a call made.
NoEnsure == [called |-> FALSE, username_empty |-> FALSE, full_name_empty |-> FALSE,
             refreshes |-> <<>>]

\* "not self._username_sites_data" / "not self._full_name_sites_data": an empty
\* list or an empty object.  An object-shaped catalog without records stands
\* for {} as well as for an object with other keys, so it may be either.
EmptyOutcomes(mem) ==
    IF mem.items # <<>> THEN {FALSE}
    ELSE IF mem.shape = "object" THEN {TRUE, FALSE}
    ELSE {TRUE}

\* The refresh operations ensure_sites_json_exists calls (lines 209-219): the
\* username refresh when the username catalog is empty; for the full-name
\* catalog it only logs and assigns [].
EnsureRefreshes(usernameEmpty, fullNameEmpty) ==
    IF usernameEmpty THEN <<"update_sites_json_from_url">> ELSE <<>>

get_full_name_sites_by_country ==
    \E country \in Countries :
        \E result \in LookupResults(full_name_sites_data, country) :
            /\ lookup' = [country |-> country, result |-> result]
            /\ ensured' = NoEnsure
            /\ UNCHANGED <<username_sites_data, full_name_sites_data, sites_json,
                           full_name_sites_json, catLast>>
            /\ UNCHANGED <<loadVars, decVars, runVars, scanVars, emailVars, domVars>>

\* SitesManager.update_sites_json_from_url
update_sites_json_from_url ==
    \E fetch \in FetchOutcomes, body \in Docs, opened \in BOOLEAN :
        LET parsed == ParseUsernameSites(body) IN
        /\ sites_json' = WrittenFile(sites_json, fetch, opened, body, parsed)
        /\ username_sites_data' = RefreshedMemory(username_sites_data, fetch, opened, parsed)
        /\ catLast' = [op |-> "update_sites", fetch |-> fetch, body |-> body, opened |-> opened,
                       ret |-> RefreshReturn(fetch, opened, parsed)]
        /\ lookup' = NoLookup
        /\ ensured' = NoEnsure
        /\ UNCHANGED <<full_name_sites_data, full_name_sites_json>>
        /\ UNCHANGED <<loadVars, decVars, runVars, scanVars, emailVars, domVars>>

\* SitesManager.update_full_name_sites_json_from_url
update_full_name_sites_json_from_url ==
    \E fetch \in FetchOutcomes, body \in Docs, opened \in BOOLEAN :
        LET parsed == ParseFullNameSites(body) IN
        /\ full_name_sites_json' = WrittenFile(full_name_sites_json, fetch, opened, body, parsed)
        /\ full_name_sites_data' = RefreshedMemory(full_name_sites_data, fetch, opened, parsed)
        /\ catLast' = [op |-> "update_full_name_sites", fetch |-> fetch, body |-> body, opened |-> opened,
                       ret |-> RefreshReturn(fetch, opened, parsed)]
        /\ lookup' = NoLookup
        /\ ensured' = NoEnsure
        /\ UNCHANGED <<username_sites_data, sites_json>>
        /\ UNCHANGED <<loadVars, decVars, runVars, scanVars, emailVars, domVars>>

\* SitesManager.ensure_sites_json_exists, lines 206-219, with the
\* update_sites_json_from_url call it awaits.
ensure_sites_json_exists ==
    \E usernameEmpty \in EmptyOutcomes(username_sites_data),
       fullNameEmpty \in EmptyOutcomes(full_name_sites_data) :
        /\ IF usernameEmpty
           THEN \E fetch \in FetchOutcomes, body \in Docs, opened \in BOOLEAN :
                    LET parsed == ParseUsernameSites(body)
                        refreshed == RefreshedMemory(username_sites_data, fetch, opened, parsed)
                    IN  /\ sites_json' = WrittenFile(sites_json, fetch, opened, body, parsed)
                        /\ username_sites_data' =
                              IF refreshed.items = <<>> THEN EmptyMemory ELSE refreshed
                        /\ catLast' = [op |-> "update_sites", fetch |-> fetch, body |-> body,
                                       opened |-> opened,
                                       ret |-> RefreshReturn(fetch, opened, parsed)]
           ELSE UNCHANGED <<sites_json, username_sites_data, catLast>>
        /\ full_name_sites_data' = IF fullNameEmpty THEN EmptyMemory ELSE full_name_sites_data
        /\ ensured' = [called |-> TRUE, username_empty |-> usernameEmpty,
                       full_name_empty |-> fullNameEmpty,
                       refreshes |-> EnsureRefreshes(usernameEmpty, fullNameEmpty)]
        /\ lookup' = NoLookup
        /\ UNCHANGED full_name_sites_json
        /\ UNCHANGED <<loadVars, decVars, runVars, scanVars, emailVars, domVars>>

\* After SitesManager(): both documents exist and both catalogs are what
\* _load_sites_data read from them.  (A sites.json holding a JSON array makes
\* the constructor raise, so no manager exists for it.)
CatalogStart ==
    /\ sites_json \in {d \in Docs : d.json # "array"}
    /\ full_name_sites_json \in Docs
    /\ username_sites_data = LoadUsernameSites(sites_json)
    /\ full_name_sites_data = LoadFullNameSites(full_name_sites_json)
    /\ catLast = NoCall
    /\ lookup = NoLookup
    /\ ensured = NoEnsure

CatalogNext ==
    \/ update_sites_json_from_url
    \/ update_full_name_sites_json_from_url
    \/ get_full_name_sites_by_country
    \/ ensure_sites_json_exists

-----------------------------------------------------------------------------
(***************************************************************************)
(* The full-name decision: modules/full_name_scanner.py,                    *)
(* _check_site_basic lines 148-155 and _check_site_dynamic lines 213-221    *)
(***************************************************************************)

\* Bounds on the strings of the decision's inputs.
MaxContentLen == 3
MaxNeedleLen == 2
MaxValueLen == 3

\* Characters of bodies and needles: two letters in both cases.
Letters == {"a", "A", "b", "B"}

\* Characters of a status_code rule's value: digits and one that is no digit.
ValueChars == {"0", "2", "4", "x"}

Strings(chars, lo, hi) == UNION {[1..n -> chars] : n \in lo..hi}

\* str.lower() of one character, and of a string.
LowerChar(c) ==
    CASE c = "A" -> "a"
      [] c = "B" -> "b"
      [] c = "F" -> "f"
      [] c = "H" -> "h"
      [] c = "I" -> "i"
      [] c = "N" -> "n"
      [] OTHER -> c

Lower(s) == [i \in DOMAIN s |-> LowerChar(s[i])]

\* Python's "needle in hay" on strings.
In(needle, hay) ==
    \E i \in 0..(Len(hay) - Len(needle)) :
        \A j \in 1..Len(needle) : hay[i + j] = needle[j]

DigitValue(c) ==
    CASE c = "0" -> 0
      [] c = "2" -> 2
      [] c = "4" -> 4
      [] OTHER -> -1

\* int(value): raises ValueError unless value is a non-empty string of digits.
IntRaises(value) == Len(value) = 0 \/ \E i \in DOMAIN value : DigitValue(value[i]) < 0

RECURSIVE IntOfDigits(_)
IntOfDigits(value) ==
    IF Len(value) = 0 THEN 0
    ELSE 10 * IntOfDigits(SubSeq(value, 1, Len(value) - 1)) + DigitValue(value[Len(value)])

Int_(value) == IntOfDigits(value)

\* The HTTP statuses a response of the model carries.
Statuses == {0, 200, 204, 404}

NoDecision == [strategy |-> "none", raised |-> FALSE, found |-> FALSE]

Decided(strategy, found) == [strategy |-> strategy, raised |-> FALSE, found |-> found]

Raised(strategy) == [strategy |-> strategy, raised |-> TRUE, found |-> FALSE]

\* A decision that skips the status_code rule: the status range decides.
BasicDecisionMutant(rule, resp) ==
    IF rule.type = "contains"
    THEN Decided("basic", ~In(Lower(rule.value), Lower(resp.content)))
    ELSE Decided("basic", 200 <= resp.status /\ resp.status < 300)

\* _check_site_basic, lines 148-155: content = await response.text() and the
\* three-way rule.
BasicDecision(rule, resp) ==
    IF rule.type = "contains"
    THEN Decided("basic", ~In(Lower(rule.value), Lower(resp.content)))
    ELSE IF rule.type = "status_code"
    THEN (IF IntRaises(rule.value)
          THEN Raised("basic")
          ELSE Decided("basic", resp.status # Int_(rule.value)))
    ELSE Decided("basic", 200 <= resp.status /\ resp.status < 300)

\* _check_site_dynamic, line 214: status = response.status if response else 0
DynamicStatus(resp) == IF resp.none THEN 0 ELSE resp.status

\* A decision that looks for the needle as written in the lower-cased page.
DynamicDecisionMutant(rule, resp) ==
    IF rule.type = "contains"
    THEN Decided("dynamic", ~In(rule.value, Lower(resp.content)))
    ELSE IF rule.type = "status_code"
    THEN (IF IntRaises(rule.value)
          THEN Raised("dynamic")
          ELSE Decided("dynamic", DynamicStatus(resp) # Int_(rule.value)))
    ELSE Decided("dynamic", 200 <= DynamicStatus(resp) /\ DynamicStatus(resp) < 300)

\* _check_site_dynamic, lines 213-221: content = await page.content() and the
\* three-way rule.
DynamicDecision(rule, resp) ==
    IF rule.type = "contains"
    THEN Decided("dynamic", ~In(Lower(rule.value), Lower(resp.content)))
    ELSE IF rule.type = "status_code"
    THEN (IF IntRaises(rule.value)
          THEN Raised("dynamic")
          ELSE Decided("dynamic", DynamicStatus(resp) # Int_(rule.value)))
    ELSE Decided("dynamic", 200 <= DynamicStatus(resp) /\ DynamicStatus(resp) < 300)

\* The noResult rules of the model: every needle, every value, and a rule of
\* another type.
Rules ==
    {[type |-> "contains", value |-> n] : n \in Strings(Letters, 0, MaxNeedleLen)}
    \cup {[type |-> "status_code", value |-> v] : v \in Strings(ValueChars, 0, MaxValueLen)}
    \cup {[type |-> "regex", value |-> <<>>]}

\* The responses of the model.  aiohttp always hands a response to the static
\* probe; page.goto may return None to the dynamic one.
Responses ==
    {[none |-> n, status |-> st, content |-> c] :
        n \in BOOLEAN, st \in Statuses, c \in Strings(Letters, 0, MaxContentLen)}

\* The inputs that matter to a rule: the body for a contains rule, the status
\* for the others (one body and one status stand for the part a rule ignores,
\* a second one shows that it is ignored).
Relevant(rule, resp) ==
    IF rule.type = "contains"
    THEN resp.status \in {200, 404}
    ELSE resp.content \in Strings({"a"}, 0, 1)

check_site_basic_decide ==
    /\ decision.strategy = "none"
    /\ ~response.none
    /\ decision' = BasicDecision(noResult, response)
    /\ UNCHANGED <<noResult, response, u_site, u_status, u_content, u_decision>>
    /\ UNCHANGED <<catVars, loadVars, runVars, scanVars, emailVars, domVars>>

check_site_dynamic_decide ==
    /\ decision.strategy = "none"
    /\ decision' = DynamicDecision(noResult, response)
    /\ UNCHANGED <<noResult, response, u_site, u_status, u_content, u_decision>>
    /\ UNCHANGED <<catVars, loadVars, runVars, scanVars, emailVars, domVars>>

UsernameDecideIdle ==
    /\ u_site = [errorType |-> "status_code", checkType |-> "negative",
                 errorString |-> [kind |-> "None", value |-> <<>>],
                 successString |-> [kind |-> "None", value |-> <<>>]]
    /\ u_status = 200
    /\ u_content = <<>>
    /\ u_decision = [strategy |-> "none", found |-> FALSE]

DecideStart ==
    /\ noResult \in Rules
    /\ response \in {r \in Responses : Relevant(noResult, r)}
    /\ decision = NoDecision
    /\ UsernameDecideIdle

DecideNext == check_site_basic_decide \/ check_site_dynamic_decide

-----------------------------------------------------------------------------
(***************************************************************************)
(* The username decision: modules/username_scanner.py, _process_response    *)
(* lines 151-190 and _check_site_dynamic lines 229-264                      *)
(***************************************************************************)

\* The generic error phrases of the status_code branches (lines 162-166 and
\* 240-244; "doesn't exist" is listed twice) ...
StatusCodeIndicators ==
    { <<"n", "o", "t", " ", "f", "o", "u", "n", "d">>,
      <<"d", "o", "e", "s", "n", "'", "t", " ", "e", "x", "i", "s", "t">>,
      <<"u", "s", "e", "r", " ", "n", "o", "t", " ", "f", "o", "u", "n", "d">>,
      <<"p", "r", "o", "f", "i", "l", "e", " ", "n", "o", "t", " ", "f", "o", "u", "n", "d">>,
      <<"p", "a", "g", "e", " ", "n", "o", "t", " ", "f", "o", "u", "n", "d">>,
      <<"4", "0", "4">>,
      <<"n", "o", " ", "s", "u", "c", "h", " ", "u", "s", "e", "r">>,
      <<"c", "o", "u", "l", "d", " ", "n", "o", "t", " ", "f", "i", "n", "d">>,
      <<"n", "o", "t", " ", "a", "v", "a", "i", "l", "a", "b", "l", "e">>,
      <<"u", "n", "a", "v", "a", "i", "l", "a", "b", "l", "e">>,
      <<"b", "r", "o", "k", "e", "n", " ", "l", "i", "n", "k">> }

\* ... and those of the dynamic probe's string branch (lines 254-257).
StringIndicators ==
    { <<"n", "o", "t", " ", "f", "o", "u", "n", "d">>,
      <<"d", "o", "e", "s", "n", "'", "t", " ", "e", "x", "i", "s", "t">>,
      <<"u", "s", "e", "r", " ", "n", "o", "t", " ", "f", "o", "u", "n", "d">>,
      <<"p", "r", "o", "f", "i", "l", "e", " ", "n", "o", "t", " ", "f", "o", "u", "n", "d">>,
      <<"p", "a", "g", "e", " ", "n", "o", "t", " ", "f", "o", "u", "n", "d">>,
      <<"4", "0", "4">>,
      <<"n", "o", " ", "s", "u", "c", "h", " ", "u", "s", "e", "r">>,
      <<"c", "o", "u", "l", "d", " ", "n", "o", "t", " ", "f", "i", "n", "d">> }

\* The bodies of the model, each made of two texts: nothing, a status number,
\* a generic phrase of both lists, one of the longer list only, and two words
\* a site definition can name, in the page's own spelling.
Contents ==
    LET Fragments ==
        { <<>>,
          <<"4", "0", "4">>,
          <<"N", "o", "t", " ", "F", "o", "u", "n", "d">>,
          <<"u", "n", "a", "v", "a", "i", "l", "a", "b", "l", "e">>,
          <<"b", "a", "n", "n", "e", "d">>,
          <<"H", "i">> }
    IN  {a \o b : a \in Fragments, b \in Fragments}

\* The Site records of the model.  errorType and checkType are members of
\* ErrorTypes and CheckTypes (enums.py); errorString is
\* Optional[Union[str, List[str]]] and successString Optional[str]
\* (site_models.py lines 61-64).
UsernameSites ==
    LET ErrorStrings ==
        { [kind |-> "None", value |-> <<>>],
          [kind |-> "str", value |-> <<"B", "a", "n", "n", "e", "d">>],
          [kind |-> "list", value |-> <<<<"b", "a", "n", "n", "e", "d">>, <<"h", "i">>>>] }
        SuccessStrings ==
        { [kind |-> "None", value |-> <<>>],
          [kind |-> "str", value |-> <<>>],
          [kind |-> "str", value |-> <<"H", "I">>] }
    IN  [errorType : {"status_code", "string"}, checkType : {"positive", "negative"},
         errorString : ErrorStrings, successString : SuccessStrings]

\* _get_error_list, lines 69-72
get_error_list(s) ==
    CASE s.errorString.kind = "None" -> <<>>
      [] s.errorString.kind = "str" -> <<s.errorString.value>>
      [] OTHER -> s.errorString.value

\* any(indicator in content.lower() for indicator in error_indicators); with
\* filter FALSE the decision is computed as if the phrase test were left out.
HasIndicator(indicators, content, filter) ==
    filter /\ \E indicator \in indicators : In(indicator, Lower(content))

\* any(err.lower() in content.lower() for err in error_list)
HasError(error_list, content) ==
    \E k \in DOMAIN error_list : In(Lower(error_list[k]), Lower(content))

IsSuccessStatus(status) == 200 <= status /\ status < 300

\* The found value of _process_response, lines 156-188.  A Site's errorType
\* is one of the two members of ErrorTypes, so the third branch is not taken.
ProcessResponseFound(s, status, content, filter) ==
    LET found ==
            IF s.errorType = "status_code"
            THEN IsSuccessStatus(status) /\ ~HasIndicator(StatusCodeIndicators, content, filter)
            ELSE IsSuccessStatus(status) /\ ~HasError(get_error_list(s), content)
    IN  IF s.checkType = "positive" THEN ~found ELSE found

\* The found value of _check_site_dynamic, lines 229-262.
CheckSiteDynamicFound(s, status, content, filter) ==
    IF s.checkType = "positive"
    THEN In(Lower(s.successString.value), Lower(content))
    ELSE IF s.errorType = "status_code"
    THEN IsSuccessStatus(status) /\ ~HasIndicator(StatusCodeIndicators, content, filter)
    ELSE /\ IsSuccessStatus(status)
         /\ ~HasIndicator(StringIndicators, content, filter)
         /\ ~HasError(get_error_list(s), content)

\* The static probe has its response (aiohttp always gives one).
process_response ==
    /\ u_decision.strategy = "none"
    /\ u_status # 0
    /\ u_decision' = [strategy |-> "basic",
                      found |-> ProcessResponseFound(u_site, u_status, u_content, TRUE)]
    /\ UNCHANGED <<noResult, response, decision, u_site, u_status, u_content>>
    /\ UNCHANGED <<catVars, loadVars, runVars, scanVars, emailVars, domVars>>

\* The dynamic probe has navigated and read the page's content.
check_site_dynamic ==
    /\ u_decision.strategy = "none"
    /\ u_decision' = [strategy |-> "dynamic",
                      found |-> CheckSiteDynamicFound(u_site, u_status, u_content, TRUE)]
    /\ UNCHANGED <<noResult, response, decision, u_site, u_status, u_content>>
    /\ UNCHANGED <<catVars, loadVars, runVars, scanVars, emailVars, domVars>>

UsernameDecideStart ==
    /\ u_site \in UsernameSites
    /\ u_status \in Statuses
    /\ u_content \in Contents
    /\ u_decision = [strategy |-> "none", found |-> FALSE]

UsernameDecideNext == process_response \/ check_site_dynamic

-----------------------------------------------------------------------------
(***************************************************************************)
(* The top level: modules/main_runner.py and modules/core/scan_manager.py   *)
(***************************************************************************)

\* The scanner classes, in the order run_scans goes through them
\* (main_runner.py lines 56-79); run_full_name_scan runs FullNameScanner.
RunScansClasses ==
    <<"UsernameScanner", "EmailScanner", "SocialMediaScanner", "DomainIPScanner", "PhoneScanner">>

FullNameClasses == <<"FullNameScanner">>

ScannerClasses ==
    {RunScansClasses[i] : i \in DOMAIN RunScansClasses} \cup {"FullNameScanner"}

ClassesOf(e) == IF e = "run_scans" THEN RunScansClasses ELSE FullNameClasses

\* The class attribute NAME that run_scanner reads (scan_manager.py line 32):
\* FullNameScanner sets it (full_name_scanner.py line 24), the other classes
\* define only the property "name".
HasNAME(class) == class = "FullNameScanner"

\* BaseScanner declares the abstract property "name" and the abstract method
\* "scan" (base_scanner.py lines 15-33); FullNameScanner overrides only scan,
\* so ScannerClass(...) raises TypeError for it.
IsAbstract(class) == class = "FullNameScanner"

\* How scanner_instance.scan(...) ends.
ScanOutcomes == {"result", "ScannerError", "Exception"}

\* ScanManager.run_scanner, lines 32-52.  Gives whether the call raises and the
\* entry it stores under the class's key ("absent": none).
RunScanner(class, outcome) ==
    IF ~HasNAME(class)
    THEN [raises |-> TRUE, entry |-> "absent"]
    ELSE IF IsAbstract(class)
    THEN [raises |-> FALSE, entry |-> "error_unexpected"]
    ELSE CASE outcome = "result" -> [raises |-> FALSE, entry |-> "result"]
           [] outcome = "ScannerError" -> [raises |-> FALSE, entry |-> "error_scanner"]
           [] OTHER -> [raises |-> FALSE, entry |-> "error_unexpected"]

\* The condition in front of each run_scanner call of run_scans
\* (name in args["selected_scans"] and args.get(target)); run_full_name_scan
\* calls run_scanner unconditionally.
Requested(e, class) ==
    e = "run_full_name_scan" \/ (class \in selected_scans /\ class \in targets)

\* gather_scan_arguments (tui/input_handler.py lines 18-50): the scans whose
\* target argument the prompts set.  "username" is asked for when the username
\* or the Twitter scan was chosen; "twitter_username", which run_scans reads
\* for the Twitter scan, is never set.  The dict gets a key per choice and the
\* prompted values, and no key "selected_scans".
gather_scan_arguments(choices) ==
    {c \in {"UsernameScanner"} : choices \cap {"UsernameScanner", "SocialMediaScanner"} # {}}
    \cup (choices \cap {"EmailScanner", "DomainIPScanner", "PhoneScanner"})

\* args["selected_scans"] of the first "if" of run_scans (main_runner.py line
\* 56) raises KeyError on a dict without the key; run_full_name_scan reads none.
HasSelectedScans == ~via_tui

\* The "finally" of both functions: if browser: await browser.close()
ClosesBrowserMutant(b, exc) == b = "launched" /\ exc = "none"

ClosesBrowser(b, exc) == b = "launched"

\* p.chromium.launch(), main_runner.py lines 43 and 104
launch ==
    /\ runPc = "start"
    /\ \E ok \in BOOLEAN :
        IF ok
        THEN /\ browser' = "launched"
             /\ runPc' = "scanners"
             /\ UNCHANGED caught
        ELSE /\ caught' = "launch"
             /\ runPc' = "cleanup"
             /\ UNCHANGED browser
    /\ UNCHANGED <<entry, selected_scans, targets, runIdx, closeCalls, scan_context,
                   invoked, propagated, reported, calls, via_tui>>
    /\ UNCHANGED <<catVars, loadVars, decVars, scanVars, emailVars, domVars>>

\* A scan that was not selected, or has no target: its "if" is false.
skip_scanner ==
    /\ runPc = "scanners"
    /\ HasSelectedScans
    /\ runIdx <= Len(ClassesOf(entry))
    /\ ~Requested(entry, ClassesOf(entry)[runIdx])
    /\ runIdx' = runIdx + 1
    /\ UNCHANGED <<entry, selected_scans, targets, runPc, browser, closeCalls, scan_context,
                   invoked, propagated, caught, reported, calls, via_tui>>
    /\ UNCHANGED <<catVars, loadVars, decVars, scanVars, emailVars, domVars>>

\* The two moments of one run_scanner call.
CallBegins(class) == [event |-> "begins", class |-> class]

CallEnds(class) == [event |-> "ends", class |-> class]

\* await scan_manager.run_scanner(ScannerClass, ...): the calls of run_scans
\* are statements of one coroutine, each awaited before the next "if" is
\* reached (main_runner.py lines 56-79), so a call has ended, by returning or
\* by raising, when the next one begins.
run_scanner ==
    /\ runPc = "scanners"
    /\ HasSelectedScans
    /\ runIdx <= Len(ClassesOf(entry))
    /\ Requested(entry, ClassesOf(entry)[runIdx])
    /\ \E outcome \in ScanOutcomes :
        LET class == ClassesOf(entry)[runIdx]
            r == RunScanner(class, outcome)
        IN  /\ invoked' = invoked \cup {class}
            /\ scan_context' = [scan_context EXCEPT ![class] = r.entry]
            /\ calls' = calls \o <<CallBegins(class), CallEnds(class)>>
            /\ IF r.raises
               THEN /\ propagated' = propagated \cup {class}
                    /\ caught' = "scanner"
                    /\ runPc' = "cleanup"
                    /\ UNCHANGED runIdx
               ELSE /\ runIdx' = runIdx + 1
                    /\ UNCHANGED <<propagated, caught, runPc>>
    /\ UNCHANGED <<entry, selected_scans, targets, browser, closeCalls, reported, via_tui>>
    /\ UNCHANGED <<catVars, loadVars, decVars, scanVars, emailVars, domVars>>

\* The KeyError of args["selected_scans"] leaves the "with" blocks and is
\* caught by the "except Exception" of run_scans (main_runner.py lines 56, 91).
selected_scans_missing ==
    /\ runPc = "scanners"
    /\ ~HasSelectedScans
    /\ caught' = "KeyError"
    /\ runPc' = "cleanup"
    /\ UNCHANGED <<entry, selected_scans, targets, runIdx, browser, closeCalls, scan_context,
                   invoked, propagated, reported, calls, via_tui>>
    /\ UNCHANGED <<catVars, loadVars, decVars, scanVars, emailVars, domVars>>

\* report_generator.generate_cli_report(scan_context) and the two saved reports
generate_report ==
    /\ runPc = "scanners"
    /\ runIdx > Len(ClassesOf(entry))
    /\ \E ok \in BOOLEAN :
        IF ok
        THEN reported' = TRUE /\ UNCHANGED caught
        ELSE caught' = "report" /\ UNCHANGED reported
    /\ runPc' = "cleanup"
    /\ UNCHANGED <<entry, selected_scans, targets, runIdx, browser, closeCalls, scan_context,
                   invoked, propagated, calls, via_tui>>
    /\ UNCHANGED <<catVars, loadVars, decVars, scanVars, emailVars, domVars>>

\* except Exception: logger.error(...); finally: if browser: await browser.close()
cleanup ==
    /\ runPc = "cleanup"
    /\ IF ClosesBrowser(browser, caught)
       THEN browser' = "closed" /\ closeCalls' = closeCalls + 1
       ELSE UNCHANGED <<browser, closeCalls>>
    /\ runPc' = "returned"
    /\ UNCHANGED <<entry, selected_scans, targets, runIdx, scan_context, invoked,
                   propagated, caught, reported, calls, via_tui>>
    /\ UNCHANGED <<catVars, loadVars, decVars, scanVars, emailVars, domVars>>

RunStart ==
    /\ entry \in {"run_scans", "run_full_name_scan"}
    /\ selected_scans \in SUBSET {RunScansClasses[i] : i \in DOMAIN RunScansClasses}
    /\ targets \in SUBSET {RunScansClasses[i] : i \in DOMAIN RunScansClasses}
    /\ entry = "run_full_name_scan" => selected_scans = {} /\ targets = {}
    /\ runPc = "start"
    /\ runIdx = 1
    /\ browser = "none"
    /\ closeCalls = 0
    /\ scan_context = [c \in ScannerClasses |-> "absent"]
    /\ invoked = {}
    /\ propagated = {}
    /\ caught = "none"
    /\ reported = FALSE
    /\ calls = <<>>
    /\ via_tui \in BOOLEAN
    /\ entry = "run_full_name_scan" => ~via_tui
    /\ via_tui => (selected_scans # {} /\ targets = gather_scan_arguments(selected_scans))

RunNext ==
    launch \/ skip_scanner \/ run_scanner \/ selected_scans_missing \/ generate_report
    \/ cleanup

-----------------------------------------------------------------------------
(***************************************************************************)
(* One category scan: modules/username_scanner.py and                       *)
(* modules/full_name_scanner.py                                             *)
(***************************************************************************)

\* config.Config: the sizes of the two pools.
BASIC_CHECK_CONCURRENCY == 4
DYNAMIC_CHECK_CONCURRENCY == 2

\* Bounds of the scans of the model.
MaxSites == 2
MaxAliases == 2
MaxTasks == 5
MaxDynamicTasks == 3

\* A Site object by the fields the scans read.  retries is <<>> for None.
SiteRecord(checkMethod, requiresJs, retries, active, firstLast) ==
    [checkMethod |-> checkMethod, requiresJs |-> requiresJs, retries |-> retries,
     active |-> active, firstLast |-> firstLast]

\* The site definitions of the model: static and script-rendered sites, with
\* and without a retry count, with "query" and with "first"/"last"
\* placeholders, and an inactive and an active site whose requiresJs and
\* checkMethod disagree (requiresJs set, checkMethod left at its default).
\* retries is an Optional[int] that nothing validates (site_models.py line
\* 72): the last site carries a negative one.
SiteDefs ==
    { SiteRecord("basic", FALSE, <<>>, TRUE, FALSE),
      SiteRecord("dynamic", TRUE, <<0>>, TRUE, FALSE),
      SiteRecord("basic", FALSE, <<1>>, TRUE, TRUE),
      SiteRecord("dynamic", TRUE, <<1>>, TRUE, TRUE),
      SiteRecord("basic", TRUE, <<0>>, FALSE, FALSE),
      SiteRecord("basic", TRUE, <<-1>>, TRUE, TRUE) }

Catalogs == UNION {[1..n -> SiteDefs] : n \in 0..MaxSites}

\* retries = site.retries if site.retries is not None else 0
\* (full_name_scanner.py lines 135 and 193)
Retries(site) == IF site.retries = <<>> THEN 0 ELSE site.retries[1]

\* The noResult rule of the sites of a scan, and what a request or a
\* navigation can give: a response with a status, a timeout
\* (asyncio.TimeoutError, playwright TimeoutError), a connection failure
\* (aiohttp.ClientConnectorError, playwright Error) or any other exception.
ScanRule == [type |-> "status_code", value |-> <<"4", "0", "4">>]

ProbeIO ==
    {[kind |-> "response", status |-> st] : st \in {200, 404}}
    \cup {[kind |-> k, status |-> 0] : k \in {"timeout", "connection", "other"}}

ResponseOf(io) == [none |-> FALSE, status |-> io.status, content |-> <<>>]

\* A probe task: the coroutine's site, strategy and retry count, where it is
\* (pc), the attempts it has begun (tries), how many of them ended in a timeout
\* or a connection failure (fails), how many attempts of a full-name probe
\* decided not-found (not_found), its local variables found and page, and how
\* it ended (out): "returned", or the class of the exception it raised.
\* range(retries + 1) is empty for a negative retries: the coroutine goes
\* straight to its return statement.
NewTask(i, kind, r) ==
    [site |-> i, kind |-> kind, retries |-> r,
     pc |-> IF r + 1 <= 0 THEN "return" ELSE "acquire", tries |-> 0, fails |-> 0,
     not_found |-> 0, found |-> FALSE, error |-> FALSE, out |-> "pending", page |-> "none"]

ExceptionClasses == {"NetworkError", "ScannerError", "AttributeError", "Exception"}

IsRaised(task) == task.pc = "done" /\ task.out \in ExceptionClasses

IsReturned(task) == task.pc = "done" /\ task.out = "returned"

Indices(seq) == [i \in 1..Len(seq) |-> i]

\* UsernameScanner.scan, lines 35-53: the dynamic sites first, then the basic
\* ones, one task each; the strategy is the site's checkMethod.
UsernameTasks(ss) ==
    LET dyn == SelectSeq(Indices(ss), LAMBDA i : ss[i].checkMethod = "dynamic")
        bas == SelectSeq(Indices(ss), LAMBDA i : ss[i].checkMethod = "basic")
    IN  [k \in 1..Len(dyn) |-> NewTask(dyn[k], "dynamic", 0)]
        \o [k \in 1..Len(bas) |-> NewTask(bas[k], "basic", 0)]

\* One name whatever the target carries.
NameVariationsMutant(middle, nAliases) == 1

\* The names a site without "first"/"last" placeholders is probed with
\* (full_name_scanner.py lines 79-87).
NameVariations(middle, nAliases) == (IF middle THEN 2 ELSE 1) + nAliases

\* FullNameScanner.scan, lines 59-98: the tasks of one site.
SiteTasks(site, i, hasContext, middle, nAliases) ==
    LET n == IF site.firstLast THEN 1 ELSE NameVariations(middle, nAliases) IN
    IF ~site.active THEN <<>>
    ELSE IF ~site.requiresJs THEN [k \in 1..n |-> NewTask(i, "basic", Retries(site))]
    ELSE IF hasContext THEN [k \in 1..n |-> NewTask(i, "dynamic", Retries(site))]
    ELSE <<>>

RECURSIVE FullNameTasks(_, _, _, _, _)
FullNameTasks(ss, i, hasContext, middle, nAliases) ==
    IF i > Len(ss) THEN <<>>
    ELSE SiteTasks(ss[i], i, hasContext, middle, nAliases)
         \o FullNameTasks(ss, i + 1, hasContext, middle, nAliases)

Dispatch(kind, ss, hasContext, middle, nAliases) ==
    IF kind = "username" THEN UsernameTasks(ss)
    ELSE FullNameTasks(ss, 1, hasContext, middle, nAliases)

\* The context is opened by every username scan (username_scanner.py line 42)
\* and by a full-name scan that has a browser (full_name_scanner.py lines 53-55).
OpensContext(kind, withBrowser) == kind = "username" \/ withBrowser

BasicSemaphoreInit == BASIC_CHECK_CONCURRENCY

\* Both semaphores made from the static pool's size.
DynamicSemaphoreInitMutant == BASIC_CHECK_CONCURRENCY

DynamicSemaphoreInit == DYNAMIC_CHECK_CONCURRENCY

\* scan() up to "await asyncio.gather(...)": the catalog lookup, the context,
\* the two semaphores and the dispatch.  Reading a field of a raw catalog entry
\* raises AttributeError before the context is opened (username_scanner.py
\* line 35, sites_manager.py line 161); a full-name scan of a country without
\* sites returns at once (full_name_scanner.py lines 45-47).
scan_start ==
    /\ scanPc = "init"
    /\ IF rawCatalog /\ Len(sites) > 0
       THEN /\ scanPc' = "raised"
            /\ scanExc' = "AttributeError"
            /\ UNCHANGED <<context, tasks, basic_semaphore, dynamic_semaphore>>
       ELSE IF scanner = "full_name" /\ Len(sites) = 0
       THEN /\ scanPc' = "returned"
            /\ UNCHANGED <<scanExc, context, tasks, basic_semaphore, dynamic_semaphore>>
       ELSE /\ scanPc' = "gathering"
            /\ context' = IF OpensContext(scanner, hasBrowser) THEN "open" ELSE "none"
            /\ tasks' = Dispatch(scanner, sites, OpensContext(scanner, hasBrowser),
                                 middle_name, aliases)
            /\ basic_semaphore' = BasicSemaphoreInit
            /\ dynamic_semaphore' = DynamicSemaphoreInit
            /\ UNCHANGED scanExc
    /\ UNCHANGED <<scanner, sites, rawCatalog, hasBrowser, middle_name, aliases,
                   contextCloses, found_on, errors, overtaken>>
    /\ UNCHANGED <<catVars, loadVars, decVars, runVars, emailVars, domVars>>

\* A loop that never takes an attempt for its last.
LastAttemptMutant(task) == FALSE

\* The attempts a probe with the retry count r can make: len(range(r + 1)).
Attempts(r) == IF r + 1 <= 0 THEN 0 ELSE r + 1

\* The loop "for attempt in range(retries + 1)": attempt == retries
LastAttempt(task) == task.tries = task.retries + 1

Finish(task, found, out) ==
    [task EXCEPT !.pc = "done", !.found = found, !.out = out]

Retry(task) == [task EXCEPT !.pc = "acquire"]

\* _process_response for a site with the default errorType and checkType, on a
\* body without one of the generic error phrases (username_scanner.py lines
\* 151-190).
ProcessResponse(io) == 200 <= io.status /\ io.status < 300

\* UsernameScanner._check_site_basic, lines 86-116, after the request: a
\* response is decided, the three caught exception classes give a dict with
\* found False and an "error" key, anything else leaves the coroutine.
UsernameBasicAfter(task, io) ==
    CASE io.kind = "response" -> Finish(task, ProcessResponse(io), "returned")
      [] io.kind \in {"timeout", "connection"} ->
            [Finish(task, FALSE, "returned") EXCEPT !.error = TRUE, !.fails = @ + 1]
      [] OTHER -> Finish(task, FALSE, "Exception")

\* The return of FullNameScanner._check_site_basic (line 173) reads
\* site.method.value; Site.method is a str (site_models.py line 57), so the
\* statement raises AttributeError.
BasicReturn(task, found) == Finish(task, found, "AttributeError")

\* An attempt of a full-name probe ended in the decision d: "if found: break"
\* / "else: ... Retrying..." (lines 157-160 and 223-226) counts a not-found.
Decides(task, d) ==
    IF d.found THEN task ELSE [task EXCEPT !.not_found = @ + 1]

\* FullNameScanner._check_site_basic, lines 138-173, after the request of one
\* attempt.
FullNameBasicAfter(task, io) ==
    LET d == IF io.kind = "response" THEN BasicDecision(ScanRule, ResponseOf(io)) ELSE NoDecision
    IN  IF io.kind = "response" /\ ~d.raised
        THEN (IF d.found \/ LastAttempt(task)
              THEN BasicReturn(Decides(task, d), d.found)
              ELSE Retry(Decides(task, d)))
        ELSE IF io.kind \in {"timeout", "connection"}
        THEN (IF LastAttempt(task)
              THEN [Finish(task, FALSE, "NetworkError") EXCEPT !.fails = @ + 1]
              ELSE [Retry(task) EXCEPT !.fails = @ + 1])
        ELSE (IF LastAttempt(task) THEN Finish(task, FALSE, "ScannerError") ELSE Retry(task))

\* UsernameScanner._check_site_dynamic, lines 205-271, after the navigation:
\* every exception is caught and gives a dict with found False; the page is
\* closed next, still inside the semaphore.
UsernameDynamicAfter(task, io) ==
    CASE io.kind = "response" ->
            [task EXCEPT !.pc = "close_page", !.found = ProcessResponse(io), !.out = "returned"]
      [] io.kind \in {"timeout", "connection"} ->
            [task EXCEPT !.pc = "close_page", !.error = TRUE, !.out = "returned", !.fails = @ + 1]
      [] OTHER ->
            [task EXCEPT !.pc = "close_page", !.error = TRUE, !.out = "returned"]

\* A dynamic probe that returns on its first decision, found or not.
FullNameDynamicAfterMutant(task, io) ==
    LET d == IF io.kind = "response" THEN DynamicDecision(ScanRule, ResponseOf(io)) ELSE NoDecision
        closing == [task EXCEPT !.pc = "close_page"]
        decided == Decides(closing, d)
    IN  IF io.kind = "response" /\ ~d.raised
        THEN [decided EXCEPT !.found = d.found, !.out = "returned"]
        ELSE IF io.kind = "timeout"
        THEN (IF LastAttempt(task)
              THEN [closing EXCEPT !.out = "NetworkError", !.fails = @ + 1]
              ELSE [closing EXCEPT !.fails = @ + 1])
        ELSE (IF LastAttempt(task)
              THEN [closing EXCEPT !.out = "ScannerError",
                                   !.fails = IF io.kind = "connection" THEN @ + 1 ELSE @]
              ELSE [closing EXCEPT !.fails = IF io.kind = "connection" THEN @ + 1 ELSE @])

\* FullNameScanner._check_site_dynamic, lines 197-241, after the navigation of
\* one attempt: only playwright's TimeoutError becomes a NetworkError, every
\* other exception a ScannerError; the page is closed next, outside the
\* semaphore.  out stays "pending" when another attempt follows.
FullNameDynamicAfter(task, io) ==
    LET d == IF io.kind = "response" THEN DynamicDecision(ScanRule, ResponseOf(io)) ELSE NoDecision
        closing == [task EXCEPT !.pc = "close_page"]
        decided == Decides(closing, d)
    IN  IF io.kind = "response" /\ ~d.raised
        THEN (IF d.found \/ LastAttempt(task)
              THEN [decided EXCEPT !.found = d.found, !.out = "returned"]
              ELSE decided)
        ELSE IF io.kind = "timeout"
        THEN (IF LastAttempt(task)
              THEN [closing EXCEPT !.out = "NetworkError", !.fails = @ + 1]
              ELSE [closing EXCEPT !.fails = @ + 1])
        ELSE (IF LastAttempt(task)
              THEN [closing EXCEPT !.out = "ScannerError",
                                   !.fails = IF io.kind = "connection" THEN @ + 1 ELSE @]
              ELSE [closing EXCEPT !.fails = IF io.kind = "connection" THEN @ + 1 ELSE @])

\* context.new_page() raised.  The username probe returns a dict with found
\* False.  The full-name probe counts the attempt as failed and, in its
\* "finally", closes whatever page the variable still refers to.
NewPageFailed(kind, task) ==
    IF kind = "username"
    THEN [Finish(task, FALSE, "returned") EXCEPT !.error = TRUE]
    ELSE LET t1 == IF LastAttempt(task) THEN [task EXCEPT !.out = "ScannerError"] ELSE task
         IN  IF t1.page # "none"
             THEN [t1 EXCEPT !.pc = "close_page"]
             ELSE IF LastAttempt(task) THEN [t1 EXCEPT !.pc = "done"] ELSE Retry(t1)

\* A step in which a probe returns found after a probe dispatched later than
\* it has already returned found: the two complete in the opposite order of
\* their dispatch.
Overtakes(before, after) ==
    \E i, j \in DOMAIN after :
        /\ i < j
        /\ before[i].pc # "done" /\ IsReturned(after[i]) /\ after[i].found
        /\ IsReturned(before[j]) /\ before[j].found

\* "async with semaphore" of a static probe: a slot is taken and the request
\* is issued.
AcquireBasic(t) ==
    /\ scanPc = "gathering"
    /\ tasks[t].kind = "basic"
    /\ tasks[t].pc = "acquire"
    /\ basic_semaphore > 0
    /\ basic_semaphore' = basic_semaphore - 1
    /\ tasks' = [tasks EXCEPT ![t] = [@ EXCEPT !.pc = "request", !.tries = @ + 1]]
    /\ UNCHANGED <<scanner, sites, rawCatalog, hasBrowser, middle_name, aliases, scanPc, scanExc,
                   context, contextCloses, dynamic_semaphore, found_on, errors>>
    /\ overtaken' = (overtaken \/ Overtakes(tasks, tasks'))
    /\ UNCHANGED <<catVars, loadVars, decVars, runVars, emailVars, domVars>>

acquire_basic == \E t \in DOMAIN tasks : AcquireBasic(t)

\* The request of a static probe ends; the slot is released.
respond_basic ==
    \E t \in DOMAIN tasks, io \in ProbeIO :
        /\ scanPc = "gathering"
        /\ tasks[t].kind = "basic"
        /\ tasks[t].pc = "request"
        /\ basic_semaphore' = basic_semaphore + 1
        /\ tasks' = [tasks EXCEPT ![t] = IF scanner = "username"
                                         THEN UsernameBasicAfter(@, io)
                                         ELSE FullNameBasicAfter(@, io)]
        /\ UNCHANGED <<scanner, sites, rawCatalog, hasBrowser, middle_name, aliases, scanPc,
                       scanExc, context, contextCloses, dynamic_semaphore, found_on, errors>>
        /\ overtaken' = (overtaken \/ Overtakes(tasks, tasks'))
        /\ UNCHANGED <<catVars, loadVars, decVars, runVars, emailVars, domVars>>

\* "async with semaphore" of a dynamic probe and page = await context.new_page()
AcquireDynamic(t, opened) ==
    /\ scanPc = "gathering"
    /\ tasks[t].kind = "dynamic"
    /\ tasks[t].pc = "acquire"
    /\ dynamic_semaphore > 0
    /\ IF opened
       THEN /\ dynamic_semaphore' = dynamic_semaphore - 1
            /\ tasks' = [tasks EXCEPT ![t] = [@ EXCEPT !.pc = "goto", !.tries = @ + 1,
                                                       !.page = "open"]]
       ELSE /\ UNCHANGED dynamic_semaphore
            /\ tasks' = [tasks EXCEPT ![t] = NewPageFailed(scanner, [@ EXCEPT !.tries = @ + 1])]
    /\ UNCHANGED <<scanner, sites, rawCatalog, hasBrowser, middle_name, aliases, scanPc, scanExc,
                   context, contextCloses, basic_semaphore, found_on, errors>>
    /\ overtaken' = (overtaken \/ Overtakes(tasks, tasks'))
    /\ UNCHANGED <<catVars, loadVars, decVars, runVars, emailVars, domVars>>

acquire_dynamic == \E t \in DOMAIN tasks, opened \in BOOLEAN : AcquireDynamic(t, opened)

\* The slot of a username probe is held until its page is closed; a full-name
\* probe leaves "async with semaphore" before its "finally".
HoldsSlotWhileClosing(kind) == kind = "username"

\* page.goto(...) of a dynamic probe ends.
respond_dynamic ==
    \E t \in DOMAIN tasks, io \in ProbeIO :
        /\ scanPc = "gathering"
        /\ tasks[t].kind = "dynamic"
        /\ tasks[t].pc = "goto"
        /\ dynamic_semaphore' = IF HoldsSlotWhileClosing(scanner)
                                THEN dynamic_semaphore
                                ELSE dynamic_semaphore + 1
        /\ tasks' = [tasks EXCEPT ![t] = IF scanner = "username"
                                         THEN UsernameDynamicAfter(@, io)
                                         ELSE FullNameDynamicAfter(@, io)]
        /\ UNCHANGED <<scanner, sites, rawCatalog, hasBrowser, middle_name, aliases, scanPc,
                       scanExc, context, contextCloses, basic_semaphore, found_on, errors>>
        /\ overtaken' = (overtaken \/ Overtakes(tasks, tasks'))
        /\ UNCHANGED <<catVars, loadVars, decVars, runVars, emailVars, domVars>>

\* "finally: if page: await page.close()" of a dynamic probe, and what follows
\* it: the next attempt, the return or the raise.
close_page ==
    \E t \in DOMAIN tasks :
        /\ scanPc = "gathering"
        /\ tasks[t].pc = "close_page"
        /\ dynamic_semaphore' = IF HoldsSlotWhileClosing(scanner)
                                THEN dynamic_semaphore + 1
                                ELSE dynamic_semaphore
        /\ tasks' = [tasks EXCEPT ![t] = [@ EXCEPT !.page = "closed",
                                                   !.pc = IF tasks[t].out = "pending"
                                                          THEN "acquire"
                                                          ELSE "done"]]
        /\ UNCHANGED <<scanner, sites, rawCatalog, hasBrowser, middle_name, aliases, scanPc,
                       scanExc, context, contextCloses, basic_semaphore, found_on, errors>>
        /\ overtaken' = (overtaken \/ Overtakes(tasks, tasks'))
        /\ UNCHANGED <<catVars, loadVars, decVars, runVars, emailVars, domVars>>

\* A full-name probe whose loop has no iteration reaches its return with found
\* still False (full_name_scanner.py lines 137-138 and 173, 195-197 and 241).
return_unattempted ==
    \E t \in DOMAIN tasks :
        /\ scanPc = "gathering"
        /\ tasks[t].pc = "return"
        /\ tasks' = [tasks EXCEPT ![t] = IF @.kind = "basic"
                                         THEN BasicReturn(@, FALSE)
                                         ELSE Finish(@, FALSE, "returned")]
        /\ UNCHANGED <<scanner, sites, rawCatalog, hasBrowser, middle_name, aliases, scanPc,
                       scanExc, context, contextCloses, basic_semaphore, dynamic_semaphore,
                       found_on, errors, overtaken>>
        /\ UNCHANGED <<catVars, loadVars, decVars, runVars, emailVars, domVars>>

\* asyncio.gather(*tasks, return_exceptions=True)
ReturnExceptionsMutant == FALSE

ReturnExceptions == TRUE

\* The loop over the gathered results (username_scanner.py lines 57-62,
\* full_name_scanner.py lines 102-107).
FoundOnMutant(ts) == SelectSeq(Indices(ts), LAMBDA i : ts[i].out = "returned")

FoundOn(ts) == SelectSeq(Indices(ts), LAMBDA i : ts[i].out = "returned" /\ ts[i].found)

Errors(ts) == SelectSeq(Indices(ts), LAMBDA i : ts[i].out \in ExceptionClasses)

\* A context closed only when nothing was raised.
ClosesContextMutant(ctx, exc) == ctx = "open" /\ exc = "none"

\* finally: await context.close() (username); if context: await context.close()
ClosesContext(ctx, exc) == ctx = "open"

\* A gather that returns as soon as one task has ended.
GatherDoneMutant(ts) == \E t \in DOMAIN ts : ts[t].pc = "done"

\* await asyncio.gather(*tasks, return_exceptions=True) returns when every
\* task has ended (username_scanner.py line 55, full_name_scanner.py line 100).
GatherDone(ts) == \A t \in DOMAIN ts : ts[t].pc = "done"

\* gather returns once every task has ended; the results are gone through and
\* the "finally" closes the context.  failed: the block raised on its way
\* (closing the HTTP session, logging, the progress display).
collect ==
    /\ scanPc = "gathering"
    /\ GatherDone(tasks)
    /\ \E failed \in BOOLEAN :
        LET exc == IF ~ReturnExceptions /\ Errors(tasks) # <<>> THEN "probe"
                   ELSE IF failed THEN "collect"
                   ELSE "none"
        IN  /\ scanExc' = exc
            /\ scanPc' = IF exc = "none" THEN "returned" ELSE "raised"
            /\ found_on' = IF exc = "none" THEN FoundOn(tasks) ELSE found_on
            /\ errors' = IF exc = "none" THEN Errors(tasks) ELSE errors
            /\ IF ClosesContext(context, exc)
               THEN context' = "closed" /\ contextCloses' = contextCloses + 1
               ELSE UNCHANGED <<context, contextCloses>>
    /\ UNCHANGED <<scanner, sites, rawCatalog, hasBrowser, middle_name, aliases, tasks,
                   basic_semaphore, dynamic_semaphore, overtaken>>
    /\ UNCHANGED <<catVars, loadVars, decVars, runVars, emailVars, domVars>>

\* A scan about to start: the scanner, the catalog entries it will get, and
\* the arguments that shape the dispatch.  A username scan is always given a
\* browser and reads no name parts.
ScanStart ==
    /\ scanner \in {"username", "full_name"}
    /\ sites \in Catalogs
    /\ rawCatalog \in BOOLEAN
    /\ hasBrowser \in BOOLEAN
    /\ middle_name \in BOOLEAN
    /\ aliases \in 0..MaxAliases
    /\ scanner = "username" => hasBrowser /\ ~middle_name /\ aliases = 0
    /\ rawCatalog => hasBrowser /\ ~middle_name /\ aliases = 0
    /\ LET ts == Dispatch(scanner, sites, OpensContext(scanner, hasBrowser), middle_name, aliases)
       IN  /\ Len(ts) <= MaxTasks
           /\ Len(SelectSeq(ts, LAMBDA task : task.kind = "dynamic")) <= MaxDynamicTasks
    /\ scanPc = "init"
    /\ scanExc = "none"
    /\ context = "none"
    /\ contextCloses = 0
    /\ tasks = <<>>
    /\ basic_semaphore = 0
    /\ dynamic_semaphore = 0
    /\ found_on = <<>>
    /\ errors = <<>>
    /\ overtaken = FALSE

ScanNext ==
    scan_start \/ acquire_basic \/ respond_basic \/ acquire_dynamic \/ respond_dynamic
    \/ close_page \/ return_unattempted \/ collect

-----------------------------------------------------------------------------
(***************************************************************************)
(* Loading the catalogs record by record: modules/sites_manager.py,         *)
(* _load_sites_data                                                         *)
(***************************************************************************)

MaxUsernameRecords == 3
MaxCountries == 2
MaxCountrySites == 2

\* A record of "username_sites": complete, or without one of the two fields
\* the Site model requires of it.
UsernameRecordKinds == {"valid", "no_id", "no_urlTemplate"}

\* A site record of a country of full_name_sites.json, by what building its
\* Site object (lines 48-81) does: it succeeds; site_info[...] raises KeyError
\* (a key the code subscripts is missing); a TypeError is raised (the record or
\* its "noResult" is no JSON object); or pydantic raises ValidationError (a
\* field of the wrong type such as "retries": "three", or a "noResult" without
\* "type").
SiteRecordKinds == {"valid", "missing_key", "type_error", "validation_error"}

UsernameDocuments == UNION {[1..n -> UsernameRecordKinds] : n \in 0..MaxUsernameRecords}

CountryRecords == UNION {[1..n -> SiteRecordKinds] : n \in 0..MaxCountrySites}

FullNameDocuments == UNION {[1..n -> CountryRecords] : n \in 0..MaxCountries}

\* Line 29: json.load(f).get("username_sites", []) -- the list of the document
\* as it is, no record is looked at.
LoadedUsernameSites(records) == records

\* What the inner try of lines 47-88 does with one site record: KeyError and
\* TypeError are caught and the record skipped; ValidationError is neither, and
\* leaves the loop.
SiteRecordOutcome(kind) ==
    CASE kind = "valid" -> "appended"
      [] kind \in {"missing_key", "type_error"} -> "skipped"
      [] OTHER -> "raised"

\* Lines 44-89 for one country: the positions of the site records appended.
CountryEntry(doc, i) ==
    [country |-> i,
     sites |-> SelectSeq(Indices(doc[i]),
                         LAMBDA j : SiteRecordOutcome(doc[i][j]) = "appended")]

\* Lines 39-96: an exception that leaves the loops is caught by
\* "except Exception" (line 94), which sets the catalog to []; otherwise the
\* catalog is the list of the countries' entries.
LoadedFullNameSites(doc) ==
    IF \E i \in DOMAIN doc : \E j \in DOMAIN doc[i] : SiteRecordOutcome(doc[i][j]) = "raised"
    THEN <<>>
    ELSE [i \in 1..Len(doc) |-> CountryEntry(doc, i)]

\* The documents the two _create_default_* methods write (lines 98-152): no
\* username record; one country with one complete site record.
DefaultUsernameDocument == <<>>

DefaultFullNameDocument == << <<"valid">> >>

\* Lines 23 and 35: "if not os.path.exists(path)".
CreatesDefaultMutant(exists) == FALSE

CreatesDefault(exists) == ~exists

\* A write or a read of a path; exists: the file is there when the operation
\* is over (a write that raised left none) or when the read opens it.
FileOp(op, file, exists) == [op |-> op, file |-> file, exists |-> exists]

\* The default cannot be written (os.makedirs or open raises OSError): the
\* exception leaves _load_sites_data and the constructor.
WriteRaises(exists, writable) == CreatesDefault(exists) /\ ~writable

\* Lines 23-28 and 35-40 for one path: the default is written when the file
\* is missing, then the file is opened for reading.
FileOps(file, exists, writable) ==
    IF CreatesDefault(exists)
    THEN IF writable
         THEN <<FileOp("write_default", file, TRUE), FileOp("read", file, TRUE)>>
         ELSE <<FileOp("write_default", file, FALSE)>>
    ELSE <<FileOp("read", file, exists)>>

\* What the read gets: the document, the default just written, or nothing
\* (FileNotFoundError is caught and gives the empty list).
DocumentRead(exists, doc, default) ==
    IF exists THEN doc ELSE IF CreatesDefault(exists) THEN default ELSE <<>>

\* SitesManager.__init__ / _load_sites_data
load_sites_data ==
    /\ loadPc = "constructing"
    /\ \E writable \in BOOLEAN :
        LET uRaises == WriteRaises(existed.username, writable)
            fRaises == ~uRaises /\ WriteRaises(existed.full_name, writable)
            uDoc == DocumentRead(existed.username, username_document, DefaultUsernameDocument)
            fDoc == DocumentRead(existed.full_name, full_name_document, DefaultFullNameDocument)
        IN  /\ file_ops' = FileOps("sites.json", existed.username, writable)
                           \o (IF uRaises THEN <<>>
                               ELSE FileOps("full_name_sites.json", existed.full_name, writable))
            /\ loadPc' = IF uRaises \/ fRaises THEN "raised" ELSE "loaded"
            /\ username_document' = IF uRaises THEN username_document ELSE uDoc
            /\ loaded_username' = IF uRaises THEN <<>> ELSE LoadedUsernameSites(uDoc)
            /\ full_name_document' = IF uRaises \/ fRaises THEN full_name_document ELSE fDoc
            /\ loaded_full_name' = IF uRaises \/ fRaises THEN <<>> ELSE LoadedFullNameSites(fDoc)
    /\ UNCHANGED <<got_username_sites, existed>>
    /\ UNCHANGED <<catVars, decVars, runVars, scanVars, emailVars, domVars>>

\* SitesManager.get_username_sites
get_username_sites ==
    /\ loadPc = "loaded"
    /\ loadPc' = "queried"
    /\ got_username_sites' = loaded_username
    /\ UNCHANGED <<username_document, full_name_document, loaded_username, loaded_full_name,
                   existed, file_ops>>
    /\ UNCHANGED <<catVars, decVars, runVars, scanVars, emailVars, domVars>>

\* Before SitesManager(): each path holds a document or no file.
LoadStart ==
    /\ existed \in [username : BOOLEAN, full_name : BOOLEAN]
    /\ username_document \in (IF existed.username THEN UsernameDocuments ELSE {<<>>})
    /\ full_name_document \in (IF existed.full_name THEN FullNameDocuments ELSE {<<>>})
    /\ loaded_username = <<>>
    /\ loaded_full_name = <<>>
    /\ loadPc = "constructing"
    /\ got_username_sites = <<>>
    /\ file_ops = <<>>

LoadNext == load_sites_data \/ get_username_sites

-----------------------------------------------------------------------------
(***************************************************************************)
(* The email scan: modules/email_scanner.py                                 *)
(***************************************************************************)

\* Most breaches a 200 answer of the model lists.
MaxBreaches == 3

BreachNames == {"Adobe", "LinkedIn"}

\* The keyword arguments scan() can be called with: run_scans passes the key
\* under "hibp_key" (main_runner.py lines 34-35, 60-63), scan() takes it as
\* "api_key" (email_scanner.py line 18).
KwargSets == SUBSET {"api_key", "hibp_key"}

\* The key's value: None, the empty string, or a non-empty string.
ApiKeys == {"None", "empty", "key"}

\* Line 24: "not api_key".
Falsy(key) == key \in {"None", "empty"}

\* The Retry-After header of a 429 answer: absent (<<>>) or its text.
RetryAfterValues == {<<>>, <<"2">>, <<"4">>, <<"x">>}

\* Line 37: response.headers.get("Retry-After", "2")
RetryAfterText(header) == IF header = <<>> THEN <<"2">> ELSE header

\* The body of a 200 answer: a JSON list of breaches with their names, a JSON
\* list with a breach that has no "Name", text that is no JSON, or a body
\* whose content type is not JSON.
BreachLists == UNION {[1..n -> BreachNames] : n \in 0..MaxBreaches}

Bodies ==
    {[kind |-> "breaches", names |-> s] : s \in BreachLists}
    \cup {[kind |-> k, names |-> <<>>] : k \in {"no_name", "invalid_json", "wrong_content_type"}}

NoBody == [kind |-> "none", names |-> <<>>]

\* How session.get (line 72) ends: a response, or an exception.
HibpAnswers ==
    {[kind |-> "response", status |-> 200, retry_after |-> <<>>, body |-> b] : b \in Bodies}
    \cup {[kind |-> "response", status |-> 429, retry_after |-> ra, body |-> NoBody] :
            ra \in RetryAfterValues}
    \cup {[kind |-> "response", status |-> st, retry_after |-> <<>>, body |-> NoBody] :
            st \in {404, 500}}
    \cup {[kind |-> k, status |-> 0, retry_after |-> <<>>, body |-> NoBody] :
            k \in {"TimeoutError", "ClientConnectorError", "ClientResponseError", "ClientError"}}

\* The subclasses of ScannerError (core/errors.py).
ScannerErrorClasses ==
    {"ScannerError", "NetworkError", "APIError", "ParsingError", "RateLimitError",
     "AuthenticationError"}

NoEmailResult == [out |-> "pending", breached |-> FALSE, breaches |-> <<>>]

EmailRaised(class) == [out |-> class, breached |-> FALSE, breaches |-> <<>>]

EmailReturned(breached, names) == [out |-> "result", breached |-> breached, breaches |-> names]

\* Lines 36-63 for an answer that is not a 429 with a readable Retry-After.
\* The "else" branch builds its message from "await response.text()[:100]",
\* which subscripts the coroutine and raises TypeError; a breach without
\* "Name" raises KeyError; neither is caught.  A body of the wrong content
\* type makes response.json() raise ContentTypeError, a ClientResponseError.
EmailAfter(answer) ==
    IF answer.kind # "response" THEN EmailRaised("NetworkError")
    ELSE CASE answer.status = 429 -> EmailRaised("ValueError")
           [] answer.status = 200 ->
                (CASE answer.body.kind = "breaches" -> EmailReturned(TRUE, answer.body.names)
                   [] answer.body.kind = "invalid_json" -> EmailRaised("ParsingError")
                   [] answer.body.kind = "wrong_content_type" -> EmailRaised("NetworkError")
                   [] OTHER -> EmailRaised("KeyError"))
           [] answer.status = 404 -> EmailReturned(FALSE, <<>>)
           [] OTHER -> EmailRaised("TypeError")

\* Lines 36-40: a 429 whose Retry-After is a number is slept on.
SleepsOn(answer) ==
    answer.kind = "response" /\ answer.status = 429 /\ ~IntRaises(RetryAfterText(answer.retry_after))

\* What run_scanner stores for the email scan when scan() ended with out.
EmailEntry(manager, out) ==
    IF ~manager THEN "absent"
    ELSE RunScanner("EmailScanner",
                    IF out = "result" THEN "result"
                    ELSE IF out \in ScannerErrorClasses THEN "ScannerError"
                    ELSE "Exception").entry

\* scan() has ended with the result r.
EmailEnds(r) ==
    /\ email_result' = r
    /\ emailPc' = IF r.out = "result" THEN "returned" ELSE "raised"
    /\ email_entry' = EmailEntry(via_manager, r.out)

\* ScanManager.run_scanner(EmailScanner, ...) up to the call of scan():
\* line 32 reads EmailScanner.NAME.
email_run_scanner ==
    /\ emailPc = "start"
    /\ via_manager
    /\ IF HasNAME("EmailScanner")
       THEN emailPc' = "called" /\ UNCHANGED email_result
       ELSE emailPc' = "propagated" /\ email_result' = EmailRaised("AttributeError")
    /\ UNCHANGED <<email_kwargs, api_key, via_manager, email_requests, email_sleeps,
                   email_answers, email_entry>>
    /\ UNCHANGED <<catVars, loadVars, decVars, runVars, scanVars, domVars>>

\* EmailScanner.scan, lines 18-34, up to the request: the call itself raises
\* TypeError when no "api_key" argument is passed.
email_scan ==
    /\ emailPc = "called" \/ (emailPc = "start" /\ ~via_manager)
    /\ IF "api_key" \notin email_kwargs
       THEN EmailEnds(EmailRaised("TypeError")) /\ UNCHANGED email_requests
       ELSE IF Falsy(api_key)
       THEN EmailEnds(EmailRaised("AuthenticationError")) /\ UNCHANGED email_requests
       ELSE /\ emailPc' = "requesting"
            /\ email_requests' = email_requests + 1
            /\ UNCHANGED <<email_result, email_entry>>
    /\ UNCHANGED <<email_kwargs, api_key, via_manager, email_sleeps, email_answers>>
    /\ UNCHANGED <<catVars, loadVars, decVars, runVars, scanVars, domVars>>

\* The request is answered: lines 34-63.
hibp_answer ==
    /\ emailPc = "requesting"
    /\ \E answer \in HibpAnswers :
        /\ email_answers' = Append(email_answers, answer)
        /\ IF SleepsOn(answer)
           THEN /\ emailPc' = "sleeping"
                /\ email_sleeps' = Append(email_sleeps, Int_(RetryAfterText(answer.retry_after)))
                /\ UNCHANGED <<email_result, email_entry>>
           ELSE EmailEnds(EmailAfter(answer)) /\ UNCHANGED email_sleeps
    /\ UNCHANGED <<email_kwargs, api_key, via_manager, email_requests>>
    /\ UNCHANGED <<catVars, loadVars, decVars, runVars, scanVars, domVars>>

\* asyncio.sleep(retry_after) is over: line 40 raises RateLimitError; no
\* request follows the sleep.
email_wake ==
    /\ emailPc = "sleeping"
    /\ EmailEnds(EmailRaised("RateLimitError"))
    /\ UNCHANGED <<email_kwargs, api_key, via_manager, email_requests, email_sleeps,
                   email_answers>>
    /\ UNCHANGED <<catVars, loadVars, decVars, runVars, scanVars, domVars>>

EmailStart ==
    /\ email_kwargs \in KwargSets
    /\ api_key \in ApiKeys
    /\ via_manager \in BOOLEAN
    /\ emailPc = "start"
    /\ email_requests = 0
    /\ email_sleeps = <<>>
    /\ email_answers = <<>>
    /\ email_result = NoEmailResult
    /\ email_entry = "absent"

EmailNext == email_run_scanner \/ email_scan \/ hibp_answer \/ email_wake

-----------------------------------------------------------------------------
(***************************************************************************)
(* The domain / IP analysis: modules/domain_ip_scanner.py                   *)
(***************************************************************************)

\* What the target string is: ipaddress.ip_address accepts the first two.
TargetKinds == {"ipv4", "ipv6", "domain"}

\* Lines 52-57
IsIpMutant(target) == FALSE

IsIp(target) == target \in {"ipv4", "ipv6"}

\* Line 81
record_types == <<"A", "AAAA", "MX", "TXT", "NS", "SOA", "CNAME">>

\* Line 92
ports_to_scan == <<21, 22, 25, 80, 110, 143, 443, 465, 587, 993, 995, 3306, 5432, 8080>>

PortSet == {ports_to_scan[i] : i \in DOMAIN ports_to_scan}

\* How whois.whois ends: a record with a registrar, a record without one (or
\* None), PywhoisError, or another exception.
WhoisAnswers == {"registrar", "no_registrar", "PywhoisError", "Exception"}

\* Lines 60-77: the ParsingError of line 72 is raised inside the "try" and is
\* caught by line 73, which turns it into a NetworkError.
WhoisError(answer) ==
    CASE answer = "registrar" -> "none"
      [] answer = "PywhoisError" -> "ParsingError"
      [] OTHER -> "NetworkError"

\* How resolver.query ends for one record type.
DnsAnswers == {"answers", "DNSError", "Exception"}

\* Lines 86-89: both "except" clauses raise.
AbortsOnDnsErrorMutant(answer) == answer = "DNSError"

AbortsOnDnsError(answer) == answer # "answers"

NoDomError == [class |-> "none", at |-> "none"]

NoDomReturn == [returned |-> FALSE, keys |-> {}, open_ports |-> <<>>]

\* Python's sorted() on a list of numbers.
InsertSorted(x, s) ==
    LET k == Cardinality({i \in DOMAIN s : s[i] <= x})
    IN  SubSeq(s, 1, k) \o <<x>> \o SubSeq(s, k + 1, Len(s))

RECURSIVE sorted(_)
sorted(s) == IF s = <<>> THEN <<>> ELSE InsertSorted(s[Len(s)], sorted(SubSeq(s, 1, Len(s) - 1)))

\* _scan_port, lines 35-47, for each port in the order of the task list: the
\* port number when the connection succeeded, None (0) otherwise.
PortResults(open) ==
    [i \in DOMAIN ports_to_scan |-> IF ports_to_scan[i] \in open THEN ports_to_scan[i] ELSE 0]

\* Line 99
OpenPorts(gathered) == sorted(SelectSeq(gathered, LAMBDA p : p # 0))

\* Lines 51-59: the target is classified.
classify_target ==
    /\ domPc = "start"
    /\ domPc' = IF IsIp(dom_target) THEN "ports" ELSE "whois"
    /\ UNCHANGED <<dom_target, lookups, dns_log, results, connected, port_attempts,
                   dom_error, dom_return>>
    /\ UNCHANGED <<catVars, loadVars, decVars, runVars, scanVars, emailVars>>

\* Lines 60-77
whois_lookup ==
    /\ domPc = "whois"
    /\ \E answer \in WhoisAnswers :
        /\ lookups' = Append(lookups, "whois")
        /\ IF WhoisError(answer) = "none"
           THEN /\ results' = results \cup {"whois"}
                /\ domPc' = "dns"
                /\ UNCHANGED dom_error
           ELSE /\ dom_error' = [class |-> WhoisError(answer), at |-> "whois"]
                /\ domPc' = "raised"
                /\ UNCHANGED results
    /\ UNCHANGED <<dom_target, dns_log, connected, port_attempts, dom_return>>
    /\ UNCHANGED <<catVars, loadVars, decVars, runVars, scanVars, emailVars>>

\* Lines 82-90: one pass of the loop over record_types; after the last type
\* the records are stored under "dns".
dns_query ==
    /\ domPc = "dns"
    /\ \E answer \in DnsAnswers :
        LET r_type == record_types[Len(dns_log) + 1] IN
        /\ lookups' = Append(lookups, r_type)
        /\ dns_log' = Append(dns_log, [r_type |-> r_type, answer |-> answer])
        /\ IF AbortsOnDnsError(answer)
           THEN /\ dom_error' = [class |-> "NetworkError", at |-> r_type]
                /\ domPc' = "raised"
                /\ UNCHANGED results
           ELSE /\ UNCHANGED dom_error
                /\ IF Len(dns_log) + 1 = Len(record_types)
                   THEN domPc' = "ports" /\ results' = results \cup {"dns"}
                   ELSE domPc' = "dns" /\ UNCHANGED results
    /\ UNCHANGED <<dom_target, connected, port_attempts, dom_return>>
    /\ UNCHANGED <<catVars, loadVars, decVars, runVars, scanVars, emailVars>>

\* Lines 92-101: the fourteen connections are attempted, gathered and the
\* result is returned.
scan_ports ==
    /\ domPc = "ports"
    /\ \E open \in SUBSET PortSet :
        /\ connected' = open
        /\ port_attempts' = PortSet
        /\ results' = results \cup {"open_ports"}
        /\ dom_return' = [returned |-> TRUE, keys |-> results \cup {"open_ports"},
                          open_ports |-> OpenPorts(PortResults(open))]
    /\ domPc' = "returned"
    /\ UNCHANGED <<dom_target, lookups, dns_log, dom_error>>
    /\ UNCHANGED <<catVars, loadVars, decVars, runVars, scanVars, emailVars>>

DomainStart ==
    /\ dom_target \in TargetKinds
    /\ domPc = "start"
    /\ lookups = <<>>
    /\ dns_log = <<>>
    /\ results = {}
    /\ connected = {}
    /\ port_attempts = {}
    /\ dom_error = NoDomError
    /\ dom_return = NoDomReturn

DomainNext == classify_target \/ whois_lookup \/ dns_query \/ scan_ports

-----------------------------------------------------------------------------
(***************************************************************************)
(* The parts at rest, and the specifications                                *)
(***************************************************************************)

CatalogIdle ==
    /\ sites_json = InvalidDoc
    /\ full_name_sites_json = InvalidDoc
    /\ username_sites_data = EmptyMemory
    /\ full_name_sites_data = EmptyMemory
    /\ catLast = NoCall
    /\ lookup = NoLookup
    /\ ensured = NoEnsure

LoadIdle ==
    /\ username_document = <<>>
    /\ full_name_document = <<>>
    /\ loaded_username = <<>>
    /\ loaded_full_name = <<>>
    /\ loadPc = "queried"
    /\ got_username_sites = <<>>
    /\ existed = [username |-> TRUE, full_name |-> TRUE]
    /\ file_ops = <<>>

FullNameDecideIdle ==
    /\ noResult = [type |-> "other", value |-> <<>>]
    /\ response = [none |-> FALSE, status |-> 200, content |-> <<>>]
    /\ decision = NoDecision

DecideIdle == FullNameDecideIdle /\ UsernameDecideIdle

RunIdle ==
    /\ entry = "run_scans"
    /\ selected_scans = {}
    /\ targets = {}
    /\ runPc = "returned"
    /\ runIdx = 1
    /\ browser = "none"
    /\ closeCalls = 0
    /\ scan_context = [c \in ScannerClasses |-> "absent"]
    /\ invoked = {}
    /\ propagated = {}
    /\ caught = "none"
    /\ reported = FALSE
    /\ calls = <<>>
    /\ via_tui = FALSE

ScanIdle ==
    /\ scanner = "username"
    /\ sites = <<>>
    /\ rawCatalog = FALSE
    /\ hasBrowser = TRUE
    /\ middle_name = FALSE
    /\ aliases = 0
    /\ scanPc = "returned"
    /\ scanExc = "none"
    /\ context = "none"
    /\ contextCloses = 0
    /\ tasks = <<>>
    /\ basic_semaphore = 0
    /\ dynamic_semaphore = 0
    /\ found_on = <<>>
    /\ errors = <<>>
    /\ overtaken = FALSE

EmailIdle ==
    /\ email_kwargs = {}
    /\ api_key = "None"
    /\ via_manager = FALSE
    /\ emailPc = "returned"
    /\ email_requests = 0
    /\ email_sleeps = <<>>
    /\ email_answers = <<>>
    /\ email_result = NoEmailResult
    /\ email_entry = "absent"

DomainIdle ==
    /\ dom_target = "domain"
    /\ domPc = "returned"
    /\ lookups = <<>>
    /\ dns_log = <<>>
    /\ results = {}
    /\ connected = {}
    /\ port_attempts = {}
    /\ dom_error = NoDomError
    /\ dom_return = NoDomReturn

OthersIdle == EmailIdle /\ DomainIdle

CatalogInit == CatalogStart /\ LoadIdle /\ DecideIdle /\ RunIdle /\ ScanIdle /\ OthersIdle

SpecCatalog == CatalogInit /\ [][CatalogNext]_vars

DecideInit == DecideStart /\ CatalogIdle /\ LoadIdle /\ RunIdle /\ ScanIdle /\ OthersIdle

SpecDecide == DecideInit /\ [][DecideNext]_vars

UsernameDecideInit ==
    /\ UsernameDecideStart
    /\ FullNameDecideIdle /\ CatalogIdle /\ LoadIdle /\ RunIdle /\ ScanIdle /\ OthersIdle

SpecUsernameDecide == UsernameDecideInit /\ [][UsernameDecideNext]_vars

RunInit == RunStart /\ CatalogIdle /\ LoadIdle /\ DecideIdle /\ ScanIdle /\ OthersIdle

SpecRun == RunInit /\ [][RunNext]_vars

ScanInit == ScanStart /\ CatalogIdle /\ LoadIdle /\ DecideIdle /\ RunIdle /\ OthersIdle

SpecScan == ScanInit /\ [][ScanNext]_vars

\* The event loop runs every coroutine that can go on: a scan that can start
\* or collect does, a probe that can take a free slot, close its page or
\* return does; and every request and every navigation ends, with a response
\* or with an exception (the timeout of session.get / page.goto at the latest).
ScanFairness ==
    /\ WF_vars(scan_start)
    /\ WF_vars(acquire_basic)
    /\ WF_vars(respond_basic)
    /\ WF_vars(acquire_dynamic)
    /\ WF_vars(respond_dynamic)
    /\ WF_vars(close_page)
    /\ WF_vars(return_unattempted)
    /\ WF_vars(collect)

\* The scans of the fair specification: catalogs of at most MaxFairSites
\* sites (one site gives up to four static or three dynamic probes).
MaxFairSites == 1

ScanFairInit == ScanInit /\ Len(sites) <= MaxFairSites

SpecScanFair == ScanFairInit /\ [][ScanNext]_vars /\ ScanFairness

LoadInit == LoadStart /\ CatalogIdle /\ DecideIdle /\ RunIdle /\ ScanIdle /\ OthersIdle

SpecLoad == LoadInit /\ [][LoadNext]_vars

EmailInit ==
    EmailStart /\ CatalogIdle /\ LoadIdle /\ DecideIdle /\ RunIdle /\ ScanIdle /\ DomainIdle

SpecEmail == EmailInit /\ [][EmailNext]_vars

DomainInit ==
    DomainStart /\ CatalogIdle /\ LoadIdle /\ DecideIdle /\ RunIdle /\ ScanIdle /\ EmailIdle

SpecDomain == DomainInit /\ [][DomainNext]_vars

-----------------------------------------------------------------------------
(***************************************************************************)
(* The claims                                                               *)
(***************************************************************************)

Count(seq, x) == Cardinality({i \in DOMAIN seq : seq[i] = x})

ScanEnded == scanPc \in {"returned", "raised"}

\* C1: in a username or full-name scan, a probe task that raises never makes
\* scan() raise; every dispatched task has run to its end when scan() ends, and
\* in the result each raising task has exactly one entry in errors (and no
\* other task has one), each task that returned found has its entry in found_on.
C1_ProbeFailureIsIsolated ==
    (ScanEnded /\ \E t \in DOMAIN tasks : IsRaised(tasks[t])) =>
        /\ scanExc # "probe"
        /\ \A t \in DOMAIN tasks : tasks[t].pc = "done"
        /\ scanPc = "returned" =>
              \A t \in DOMAIN tasks :
                  /\ Count(errors, t) = IF IsRaised(tasks[t]) THEN 1 ELSE 0
                  /\ Count(found_on, t) = IF IsReturned(tasks[t]) /\ tasks[t].found THEN 1 ELSE 0

\* A full-name scan has returned in which one task raised and another one,
\* dispatched after it, returned found and is listed.
C1_Witness ==
    /\ scanner = "full_name"
    /\ scanPc = "returned"
    /\ \E t1, t2 \in DOMAIN tasks :
          /\ t1 < t2
          /\ IsRaised(tasks[t1])
          /\ IsReturned(tasks[t2]) /\ tasks[t2].found
          /\ Count(errors, t1) = 1
          /\ Count(found_on, t2) = 1

\* C2: run_scanner never lets a scanner's failure out: no call of it raises,
\* every class it was called for has an entry in the context, and when a
\* function that launched the browser has returned, run_scanner was called for
\* every requested class.
C2_RunScannerNeverPropagates ==
    /\ propagated = {}
    /\ \A c \in invoked : scan_context[c] # "absent"
    /\ (runPc = "returned" /\ browser # "none") =>
          \A i \in DOMAIN ClassesOf(entry) :
              Requested(entry, ClassesOf(entry)[i]) => ClassesOf(entry)[i] \in invoked

\* The probes that hold a slot of their pool.
InBasicSection == {t \in DOMAIN tasks : tasks[t].kind = "basic" /\ tasks[t].pc = "request"}

InDynamicSection ==
    {t \in DOMAIN tasks :
        /\ tasks[t].kind = "dynamic"
        /\ \/ tasks[t].pc = "goto"
           \/ HoldsSlotWhileClosing(scanner) /\ tasks[t].pc = "close_page"}

Waiting(kind) == {t \in DOMAIN tasks : tasks[t].kind = kind /\ tasks[t].pc = "acquire"}

\* C3: during a scan at most BASIC_CHECK_CONCURRENCY static probes are in
\* their request section and at most DYNAMIC_CHECK_CONCURRENCY dynamic probes
\* in their page section; and a waiting probe can take a slot whenever its own
\* pool has one free, whatever the other pool holds.
C3_IndependentBoundedPools ==
    scanPc = "gathering" =>
        /\ Cardinality(InBasicSection) <= BASIC_CHECK_CONCURRENCY
        /\ Cardinality(InDynamicSection) <= DYNAMIC_CHECK_CONCURRENCY
        /\ \A t \in Waiting("basic") :
              Cardinality(InBasicSection) < BASIC_CHECK_CONCURRENCY => ENABLED AcquireBasic(t)
        /\ \A t \in Waiting("dynamic") :
              Cardinality(InDynamicSection) < DYNAMIC_CHECK_CONCURRENCY
                  => ENABLED AcquireDynamic(t, TRUE)

\* Every dynamic slot is held and a dynamic probe waits for one, while a
\* static probe took a slot and issued its request.
C3_Witness ==
    /\ scanPc = "gathering"
    /\ Cardinality(InDynamicSection) = DYNAMIC_CHECK_CONCURRENCY
    /\ Waiting("dynamic") # {}
    /\ InBasicSection # {}

\* C4: a full-name probe of a site with retry count r makes at most r+1
\* attempts; if every attempt failed with a timeout or a connection error, it
\* made r+1 attempts and raised NetworkError, and the scan's result has exactly
\* one error string for it.
C4_ExhaustedRetriesRaiseNetworkError ==
    scanner = "full_name" =>
        \A t \in DOMAIN tasks :
            /\ tasks[t].tries <= Attempts(tasks[t].retries)
            /\ (tasks[t].pc = "done" /\ tasks[t].tries >= 1 /\ tasks[t].fails = tasks[t].tries) =>
                  /\ tasks[t].tries = tasks[t].retries + 1
                  /\ tasks[t].out = "NetworkError"
                  /\ scanPc = "returned" => Count(errors, t) = 1

\* The status a decision has observed: the response's, or 0 where the
\* navigation gave no response.
ObservedStatus ==
    IF decision.strategy = "dynamic" /\ response.none THEN 0 ELSE response.status

\* C5: for a rule of type status_code whose value V is a number, the static
\* and the dynamic decision give found = TRUE exactly when the observed status
\* differs from V.
C5_StatusCodeRule ==
    (decision.strategy # "none" /\ noResult.type = "status_code" /\ ~IntRaises(noResult.value)) =>
        /\ ~decision.raised
        /\ decision.found <=> (ObservedStatus # Int_(noResult.value))

\* The scenario of a rule "404": a page answered 200 and was decided found.
C5_Witness ==
    /\ decision.strategy = "dynamic"
    /\ noResult = [type |-> "status_code", value |-> <<"4", "0", "4">>]
    /\ ~response.none
    /\ response.status = 200
    /\ decision.found

\* Two characters that are the same letter, whatever their case.
SameLetter(c, d) ==
    \/ c = d
    \/ {c, d} \in {{"a", "A"}, {"b", "B"}}

\* The needle occurs in the body when case is ignored.
OccursIgnoringCase(needle, body) ==
    \E i \in 0..(Len(body) - Len(needle)) :
        \A j \in 1..Len(needle) : SameLetter(body[i + j], needle[j])

\* C6: for a rule of type contains with needle N, the static and the dynamic
\* decision give found = TRUE exactly when N does not occur in the body with
\* case ignored.
C6_ContainsRuleIgnoresCase ==
    (decision.strategy # "none" /\ noResult.type = "contains") =>
        /\ ~decision.raised
        /\ decision.found <=> ~OccursIgnoringCase(noResult.value, response.content)

\* A needle in mixed case found in a body that spells it in the other case.
C6_Witness ==
    /\ decision.strategy = "basic"
    /\ noResult = [type |-> "contains", value |-> <<"a", "B">>]
    /\ response.content = <<"b", "A", "b">>
    /\ ~decision.found

\* C7: a scan closes the context it opened exactly once, and has done so when
\* it ends, however it ends; a scan that opened none closes none.
C7_ContextClosedExactlyOnce ==
    /\ contextCloses <= 1
    /\ context = "none" => contextCloses = 0
    /\ context = "closed" => contextCloses = 1
    /\ ScanEnded => context # "open"

\* A scan that raised while going through the results of its tasks, one of
\* which had raised, and closed its context.
C7_Witness ==
    /\ scanPc = "raised"
    /\ scanExc = "collect"
    /\ \E t \in DOMAIN tasks : IsRaised(tasks[t])
    /\ context = "closed"
    /\ contextCloses = 1

\* C8: when run_scans or run_full_name_scan has returned, a browser that was
\* launched has been closed by one browser.close(), also after a scanner or the
\* report raised; when the launch failed nothing was closed.
C8_BrowserClosedBeforeReturn ==
    runPc = "returned" =>
        /\ browser # "launched"
        /\ browser = "closed" => closeCalls = 1
        /\ browser = "none" => (closeCalls = 0 /\ caught = "launch")
        /\ caught = "launch" => browser = "none"

\* run_scans returned after a run_scanner call raised, with the browser closed.
C8_Witness ==
    /\ runPc = "returned"
    /\ entry = "run_scans"
    /\ caught = "scanner"
    /\ browser = "closed"
    /\ closeCalls = 1

\* The catalog and the document a refresh call is about, after the call.
RefreshedCatalog(op, usernameData, fullNameData) ==
    IF op = "update_sites" THEN usernameData ELSE fullNameData

RefreshedDocument(op, usernameDoc, fullNameDoc) ==
    IF op = "update_sites" THEN usernameDoc ELSE fullNameDoc

\* C9: a refresh (called on its own, not by ensure_sites_json_exists) whose
\* fetch failed, or whose body is no JSON, leaves both in-memory catalogs as
\* they were and returns False.
C9_FailedRefreshKeepsCatalog ==
    [][(~ensured'.called /\ (catLast'.fetch # "ok" \/ catLast'.body.json = "invalid")) =>
          /\ username_sites_data' = username_sites_data
          /\ full_name_sites_data' = full_name_sites_data
          /\ catLast'.ret = FALSE]_vars

\* A refresh of the username catalog fetched a body that is no JSON, returned
\* False, and the catalog still holds its record.
C9_Witness ==
    /\ catLast.op = "update_sites"
    /\ catLast.fetch = "ok"
    /\ catLast.opened
    /\ catLast.body.json = "invalid"
    /\ ~catLast.ret
    /\ username_sites_data.items # <<>>

\* C10: a refresh (called on its own) replaces the in-memory catalog and the
\* local document together or not at all: after the call both hold what was
\* fetched, or both are what they were.
C10_RefreshAllOrNothing ==
    [][LET op == catLast'.op
           parsed == IF op = "update_sites" THEN ParseUsernameSites(catLast'.body)
                     ELSE ParseFullNameSites(catLast'.body)
       IN  \/ ensured'.called
           \/ /\ parsed.ok
              /\ RefreshedCatalog(op, username_sites_data', full_name_sites_data') = parsed.value
              /\ RefreshedDocument(op, sites_json', full_name_sites_json') = catLast'.body
           \/ /\ RefreshedCatalog(op, username_sites_data', full_name_sites_data')
                    = RefreshedCatalog(op, username_sites_data, full_name_sites_data)
              /\ RefreshedDocument(op, sites_json', full_name_sites_json')
                    = RefreshedDocument(op, sites_json, full_name_sites_json)]_vars

\* C11: after a successful refresh the refreshed in-memory catalog holds
\* validated records (Site, CountrySites), as after a load from disk, and
\* get_full_name_sites_by_country never raises.
C11_RefreshValidatesLikeLoad ==
    /\ (catLast.op # "none" /\ catLast.ret) =>
           RefreshedCatalog(catLast.op, username_sites_data, full_name_sites_data).validated
    /\ lookup.result # "AttributeError"

\* C12: loading the full-name catalog never aborts on a bad site record: the
\* record is dropped, and every valid site record of the document, of its
\* country and of the others, is in the loaded catalog.
C12_BadRecordDroppedOthersKept ==
    loadPc \in {"loaded", "queried"} =>
        \A i \in DOMAIN full_name_document :
            \A j \in DOMAIN full_name_document[i] :
                (full_name_document[i][j] = "valid") <=>
                    \E k \in DOMAIN loaded_full_name :
                        /\ loaded_full_name[k].country = i
                        /\ \E m \in DOMAIN loaded_full_name[k].sites :
                               loaded_full_name[k].sites[m] = j

\* C13: loading the username catalog validates each record: what
\* get_username_sites() returns has no record that lacks id or urlTemplate, and
\* has as many records as the document has valid ones.
C13_UsernameRecordsValidated ==
    loadPc = "queried" =>
        /\ \A k \in DOMAIN got_username_sites : got_username_sites[k] = "valid"
        /\ Len(got_username_sites)
              = Cardinality({k \in DOMAIN username_document : username_document[k] = "valid"})

\* The tasks dispatched for the site at position i of the catalog.
TasksOf(i) == {t \in DOMAIN tasks : tasks[t].site = i}

\* C14: no probe is dispatched for a site whose active flag is false.
C14_InactiveNeverProbed ==
    \A t \in DOMAIN tasks : sites[tasks[t].site].active

\* C15: an active site with requiresJs = true is never probed with the
\* static strategy: every task dispatched for it is a dynamic one, whatever
\* its checkMethod says.
C15_RequiresJsProbedDynamically ==
    \A t \in DOMAIN tasks :
        (sites[tasks[t].site].active /\ sites[tasks[t].site].requiresJs)
            => tasks[t].kind = "dynamic"

\* The number of tasks a scan is to dispatch for the site at position i.
ExpectedTasks(i) ==
    IF scanner = "username" THEN 1
    ELSE IF ~sites[i].active THEN 0
    ELSE IF sites[i].requiresJs /\ ~hasBrowser THEN 0
    ELSE IF sites[i].firstLast THEN 1
    ELSE (IF middle_name THEN 2 ELSE 1) + aliases

ExpectedStrategy(i) ==
    IF scanner = "username" THEN sites[i].checkMethod
    ELSE IF sites[i].requiresJs THEN "dynamic" ELSE "basic"

NoneRaised == \A t \in DOMAIN tasks : ~IsRaised(tasks[t])

RequestedClasses ==
    {ClassesOf(entry)[i] : i \in {j \in DOMAIN ClassesOf(entry) : Requested(entry, ClassesOf(entry)[j])}}

\* Some run_scanner call began while another one had begun and not ended.
Overlap ==
    \E i, j \in DOMAIN calls :
        /\ i < j
        /\ calls[i].event = "begins"
        /\ calls[j].event = "begins"
        /\ \A k \in (i + 1)..(j - 1) : calls[k] # CallEnds(calls[i].class)

\* C18: when several category scans are requested in one invocation they run
\* concurrently: once the invocation that launched the browser has returned,
\* some later scanner had begun before an earlier one had ended.
C18_RequestedScannersOverlap ==
    (runPc = "returned" /\ browser # "none" /\ Cardinality(RequestedClasses) >= 2) => Overlap

\* C19: a run_scanner call for a category writes that category's entry of the
\* context, on the success path and on every error path, and leaves the entry
\* of every other category as it was.
C19_WritesOwnKeyOnly ==
    [][\A c \in ScannerClasses :
          (c \in invoked' /\ c \notin invoked) =>
              /\ scan_context[c] = "absent"
              /\ scan_context'[c] # "absent"
              /\ \A d \in ScannerClasses \ {c} : scan_context'[d] = scan_context[d]]_vars

\* C20: in run_scans, once the browser was launched the report is generated
\* from the context whichever scanners failed; only a failed launch ends the
\* invocation without a report.
C20_ReportAfterLaunch ==
    (entry = "run_scans" /\ runPc = "returned" /\ browser # "none" /\ caught # "report")
        => reported

\* C21: in the username scan a probe that failed with a timeout or a
\* connection error has its error string in the result's errors list.
C21_FailedUsernameProbeRecorded ==
    (scanner = "username" /\ scanPc = "returned") =>
        \A t \in DOMAIN tasks :
            tasks[t].fails >= 1 => Count(errors, t) = 1

\* C22: in the username scan a probe of a site with retries = r whose
\* attempts fail with a timeout or a connection error has made r+1 attempts
\* when it ends.
C22_UsernameProbeRetries ==
    scanner = "username" =>
        \A t \in DOMAIN tasks :
            (tasks[t].pc = "done" /\ tasks[t].fails >= 1 /\ Retries(sites[tasks[t].site]) >= 0)
                => tasks[t].tries = Retries(sites[tasks[t].site]) + 1

EmailEnded == emailPc \in {"returned", "raised", "propagated"}

RateLimited == \E i \in DOMAIN email_answers : email_answers[i].status = 429

\* C23: an email scan whose request was answered 429 has, when it ends,
\* slept once and issued the request a second time: two requests in all.
C23_RateLimitRetriedOnce ==
    (EmailEnded /\ RateLimited) => (Len(email_sleeps) = 1 /\ email_requests = 2)

Ascending(s) == \A i, j \in DOMAIN s : i < j => s[i] < s[j]

Range(s) == {s[i] : i \in DOMAIN s}

\* C25: for an IP address no WHOIS and no DNS lookup is made, the analysis
\* returns, its result has the key open_ports only, and open_ports is the
\* ascending list of the probed ports whose connection succeeded.
C25_IpTargetOnlyPorts ==
    dom_target \in {"ipv4", "ipv6"} =>
        /\ lookups = <<>>
        /\ domPc # "raised"
        /\ domPc = "returned" =>
            /\ dom_return.returned
            /\ dom_return.keys = {"open_ports"}
            /\ port_attempts = PortSet
            /\ Ascending(dom_return.open_ports)
            /\ Range(dom_return.open_ports) = connected

C25_Witness ==
    /\ dom_target = "ipv6"
    /\ domPc = "returned"
    /\ dom_return.open_ports = <<22, 443, 8080>>

\* C26: for a domain, a DNS query that ends in an error is the last query
\* made; the analysis raises NetworkError naming that record type, returns
\* nothing and attempts no connection.
C26_DnsErrorAborts ==
    \A i \in DOMAIN dns_log :
        dns_log[i].answer # "answers" =>
            /\ i = Len(dns_log)
            /\ lookups = <<"whois">> \o SubSeq(record_types, 1, i)
            /\ domPc = "raised"
            /\ dom_error = [class |-> "NetworkError", at |-> dns_log[i].r_type]
            /\ dom_return = NoDomReturn
            /\ port_attempts = {}

C26_Witness ==
    /\ Len(dns_log) = 3
    /\ dns_log[3] = [r_type |-> "MX", answer |-> "DNSError"]
    /\ domPc = "raised"
    /\ dom_error.at = "MX"

\* C28: an email scan run by the scan manager without an API key ends without
\* a request, in AuthenticationError, and the manager has stored that error
\* as the entry of the email scan.
C28_MissingKeyRecorded ==
    (via_manager /\ Falsy(api_key) /\ EmailEnded) =>
        /\ email_requests = 0
        /\ email_result.out = "AuthenticationError"
        /\ email_entry = "error_scanner"

\* C24: a call of ensure_sites_json_exists that finds both in-memory catalogs
\* empty makes one refresh of the username catalog and one refresh of the
\* full-name catalog, and a catalog that is still empty afterwards is the
\* empty list.
C24_EnsureRefreshesBoth ==
    (ensured.called /\ ensured.username_empty /\ ensured.full_name_empty) =>
        /\ Count(ensured.refreshes, "update_sites_json_from_url") = 1
        /\ Count(ensured.refreshes, "update_full_name_sites_json_from_url") = 1
        /\ username_sites_data.items = <<>> => username_sites_data = EmptyMemory
        /\ full_name_sites_data.items = <<>> => full_name_sites_data = EmptyMemory

ExistedAtStart(file) == IF file = "sites.json" THEN existed.username ELSE existed.full_name

\* C27: every read the load makes is of a file that exists, and a path that
\* had no file when the manager started has its default written earlier in
\* the load than its first read.
C27_DefaultWrittenBeforeFirstRead ==
    \A k \in DOMAIN file_ops :
        file_ops[k].op = "read" =>
            /\ file_ops[k].exists
            /\ ~ExistedAtStart(file_ops[k].file) =>
                   \E j \in 1..(k - 1) :
                       file_ops[j] = FileOp("write_default", file_ops[k].file, TRUE)

\* The full-name document was missing: its default was written, then read,
\* and the catalog holds the default's country.
C27_Witness ==
    /\ loadPc = "loaded"
    /\ existed = [username |-> TRUE, full_name |-> FALSE]
    /\ file_ops = <<FileOp("read", "sites.json", TRUE),
                    FileOp("write_default", "full_name_sites.json", TRUE),
                    FileOp("read", "full_name_sites.json", TRUE)>>
    /\ Len(loaded_full_name) = 1

\* The probe reached its return statement (the static one's raises there).
ReachedReturn(task) ==
    task.pc = "done" /\ task.out = (IF task.kind = "basic" THEN "AttributeError" ELSE "returned")

\* C29: in the full-name scan a probe that reached its return with
\* found = true has one entry in found_on, and one that reached it with
\* found = false has no entry in found_on and no error string.
C29_DecisionsInResult ==
    (scanner = "full_name" /\ scanPc = "returned") =>
        \A t \in DOMAIN tasks :
            ReachedReturn(tasks[t]) =>
                IF tasks[t].found
                THEN Count(found_on, t) = 1
                ELSE Count(found_on, t) = 0 /\ Count(errors, t) = 0

C31_FoundOnInCompletionOrder ==
    (scanPc = "returned" /\ overtaken) => ~Ascending(found_on)

\* C37: in the full-name scan every probe that reached its return statement
\* has issued a request (static) or opened a page and navigated (dynamic).
C37_EveryProbeContactsSite ==
    scanner = "full_name" =>
        \A t \in DOMAIN tasks :
            ReachedReturn(tasks[t]) =>
                IF tasks[t].kind = "basic" THEN tasks[t].tries >= 1 ELSE tasks[t].page # "none"

\* C34: the context of a category scan is closed only when every dispatched
\* probe task has ended, and a page is open only in an open context.
C34_ContextClosedAfterProbes ==
    /\ context = "closed" => \A t \in DOMAIN tasks : tasks[t].pc = "done"
    /\ \A t \in DOMAIN tasks : tasks[t].page = "open" => context = "open"

\* A scan closed its context after three probes, one that had closed its page
\* and one that had raised among them.
C34_Witness ==
    /\ context = "closed"
    /\ Len(tasks) >= 3
    /\ \E t \in DOMAIN tasks : tasks[t].page = "closed"
    /\ \E t \in DOMAIN tasks : IsRaised(tasks[t])

OpenPages == {t \in DOMAIN tasks : tasks[t].page = "open"}

\* C35: at most DYNAMIC_CHECK_CONCURRENCY pages are open at any moment of a
\* category scan.
C35_OpenPagesBounded == Cardinality(OpenPages) <= DYNAMIC_CHECK_CONCURRENCY

\* C36: the page a dynamic probe is about to close in its "finally" is open:
\* no page is closed a second time.
C36_PageClosedOnce ==
    \A t \in DOMAIN tasks : tasks[t].pc = "close_page" => tasks[t].page = "open"

C39_SelectedScansInvokedOnce ==
    (entry = "run_scans" /\ runPc = "returned" /\ browser # "none") =>
        \A c \in selected_scans \cap targets :
            /\ Count(calls, CallBegins(c)) = 1
            /\ scan_context[c] # "absent"

\* The found value of the strategy that decided, computed without the generic
\* phrase filter.
Unfiltered ==
    IF u_decision.strategy = "basic"
    THEN ProcessResponseFound(u_site, u_status, u_content, FALSE)
    ELSE CheckSiteDynamicFound(u_site, u_status, u_content, FALSE)

\* C32: in the username decision the generic phrase filter never turns
\* not-found into found: a decision that is found = false without the filter
\* is found = false with it.
C32_FilterOnlyLowers ==
    (u_decision.strategy # "none" /\ ~Unfiltered) => ~u_decision.found

\* C33: the static and the dynamic strategy of the username scan compute the
\* same found value for the same site, status and body.
C33_StrategiesAgree ==
    /\ u_decision.strategy = "basic" =>
          u_decision.found = CheckSiteDynamicFound(u_site, u_status, u_content, TRUE)
    /\ u_decision.strategy = "dynamic" /\ u_status # 0 =>
          u_decision.found = ProcessResponseFound(u_site, u_status, u_content, TRUE)
====
